---- MODULE Spec2Model ----
(***************************************************************************)
(* A state-machine model of parts of the Monado XR runtime:                *)
(*   - the external-SLAM adapter (auxiliary/tracking/t_tracker_slam.cpp),  *)
(*   - the frame-to-matrix bridge MatFrame of the same file,               *)
(*   - the libsurvive driver's shared context (drivers/survive),           *)
(*   - the IPC client instance (ipc/client/ipc_client_instance.c),         *)
(*   - the Vive HMD IMU report decoder (drivers/vive/vive_device.c),       *)
(*   - the WMR system builder (targets/common/target_builder_wmr.c).       *)
(*                                                                         *)
(* Every component has its own variables and its own specification; the    *)
(* variables of the components a specification does not run stay at their  *)
(* idle values.                                                            *)
(*                                                                         *)
(* Abstractions.  Timestamps are small integers ("ticks").  A pose is one  *)
(* position coordinate p and one rotation angle o, a velocity one linear   *)
(* component v and one angular component w; the vector and quaternion      *)
(* algebra of the source becomes integer arithmetic on these, and          *)
(* divisions are integer divisions.  The model is of the NDEBUG build, in  *)
(* which SLAM_DASSERT evaluates its predicate and discards it.             *)
(***************************************************************************)
EXTENDS Integers, Sequences, FiniteSets, TLC

(***************************************************************************)
(* Bounds of the model.                                                    *)
(***************************************************************************)
MaxTs == 3          \* sensor, pose and query timestamps are 0..MaxTs
MaxInputs == 3      \* samples forwarded to the engine in one run
MaxPoses == 3       \* poses the engine produces in one run
MaxQueries == 2     \* pose queries in one run
MaxSinkTs == 2      \* timestamps of the samples of the teardown scenario
MaxPredTs == 2      \* timestamps of the prediction scenario

Timestamps == 0..MaxTs

\* Stands for the least int64: below every timestamp of the model.
INT64_MIN == -1

\* config->cam_count, by default SLAM_CAM_COUNT
cam_count == 2
Cams == 0..(cam_count - 1)

Min(a, b) == IF a < b THEN a ELSE b
Max(a, b) == IF a > b THEN a ELSE b

RECURSIVE SumSeq(_)
SumSeq(s) == IF s = <<>> THEN 0 ELSE Head(s) + SumSeq(Tail(s))

(***************************************************************************)
(* Variables of the SLAM adapter (struct TrackerSlam) and of the engine    *)
(* behind it.                                                              *)
(***************************************************************************)
VARIABLES
    submit,            \* t.submit
    last_imu_ts,       \* t.last_imu_ts
    last_cam_ts,       \* t.last_cam_ts[cam]
    gyro_ff,           \* t.gyro_ff: <<[ts, x]>>, newest first
    accel_ff,          \* t.accel_ff
    slam_state,        \* the engine: "initialized", "running", "finalized", "stopped"
    slam_in,           \* what was pushed to the engine: <<[s, ts, fin]>>
    slam_queue,        \* the engine's output queue of poses [ts, p, o]
    slam_made,         \* <<[ts, p, o]>>: every pose the engine has produced
    oth,               \* t.oth: "init", "running", "joined"
    ovr_tracker,       \* t.ovr_tracker: "null", "running", "stopped"
    ba_pc,             \* position of t_slam_node_break_apart
    slam_rels,         \* t.slam_rels: <<[ts, rel]>>, oldest first
    dbg_pred_every,    \* t.dbg_pred_every
    dbg_pred_counter,  \* t.dbg_pred_counter
    slam_traj,         \* rows t.slam_traj_writer has written: <<[ts, p, o]>>
    pred_type,         \* t.pred_type
    last_rel,          \* t.last_rel
    last_ts,           \* t.last_ts
    filter,            \* t.filter
    gt,                \* t.gt: [trajectory, origin, override_tracking]
    pred_traj,         \* rows t.pred_traj_writer has written
    filt_traj,         \* rows t.filt_traj_writer has written
    writer_enabled,    \* the writers' enabled flags, by writer
    query,             \* the caller's last pose query: [when, out_relation]
    n_queries          \* pose queries so far

slamVars == <<submit, last_imu_ts, last_cam_ts, gyro_ff, accel_ff, slam_state,
              slam_in, slam_queue, slam_made, oth, ovr_tracker, ba_pc,
              slam_rels, dbg_pred_every, dbg_pred_counter, slam_traj, pred_type,
              last_rel, last_ts, filter, gt, pred_traj, filt_traj, writer_enabled,
              query, n_queries>>

sinkVars == <<submit, last_imu_ts, last_cam_ts, gyro_ff, accel_ff, slam_in>>
engineVars == <<slam_state, slam_queue, slam_made, oth, ovr_tracker, ba_pc>>
flushVars == <<slam_rels, dbg_pred_counter, slam_traj>>
queryVars == <<last_rel, last_ts, filter, pred_traj, filt_traj, query, n_queries>>
uiVars == <<dbg_pred_every, pred_type, writer_enabled>>

(***************************************************************************)
(* Variables of the libsurvive driver (struct survive_system and its       *)
(* devices).  The devices are numbered from 1 in the order they are        *)
(* created; 0 is NULL.                                                     *)
(***************************************************************************)
VARIABLES
    survive_already_initialized,
    ss,                \* the survive_system: [ctx, hmd, controllers]
    ss_alloc,          \* the system's memory: "none", "alive", "freed"
    survive_devs,      \* by device: [state, variant], state "none", "alive", "freed"
    survive_closes,    \* calls of survive_simple_close
    survive_frees,     \* calls of free(sys)
    survive_crashed,   \* a destroy went through freed memory and crashed
    survive_out        \* <<out_xdevs[0 .. n-1]>> of the last survive_found with
                       \* its return value n, <<>> before any

surviveVars == <<survive_already_initialized, ss, ss_alloc, survive_devs,
                 survive_closes, survive_frees, survive_crashed, survive_out>>

(***************************************************************************)
(* Variables of the IPC client instance (struct ipc_client_instance), of   *)
(* the device sets it hands out and of the device proxies.                 *)
(***************************************************************************)
VARIABLES
    ii_alloc,          \* the instance: "none", "alive", "freed"
    ii_xdevs,          \* ii->xdevs[0 .. xdev_count - 1]
    ism_roles,         \* ii->ipc_c.ism->roles, an index by role
    xsysds,            \* the calls of create_system and the sets they made
    ipc_xdev_destroys, \* by device proxy: times destroyed
    ipc_xdev_made      \* device proxies created

ipcVars == <<ii_alloc, ii_xdevs, ism_roles, xsysds, ipc_xdev_destroys,
             ipc_xdev_made>>

(***************************************************************************)
(* Variables of the Vive HMD IMU decoder and of the sensor feeding it.     *)
(***************************************************************************)
VARIABLES
    imu_sequence,      \* d->imu.sequence
    imu_first_seq,     \* sequence number of the first sample the host is sent
    imu_newest,        \* index of the newest sample sent so far, -1 before any
    imu_fused          \* by sample index: times fed to the fusion

viveVars == <<imu_sequence, imu_first_seq, imu_newest, imu_fused>>

(***************************************************************************)
(* Variables of the frame-to-matrix bridge: frames and the views on them.  *)
(***************************************************************************)
VARIABLES
    frames,            \* by frame: [refs, owner, destroys]
    views              \* <<[frame, refcount, taken, released]>>, one per wrap

matVars == <<frames, views>>

(***************************************************************************)
(* Variables of the WMR builder.                                           *)
(***************************************************************************)
VARIABLES
    wmr_prober,        \* what the prober lists: [holo, companion, left, right]
    wmr_devs,          \* by device of the system: "none", "alive", "destroyed"
    wmr_xsysd,         \* xsysd->xdevs[0 .. xdev_count - 1]
    wmr_ubrh,          \* the roles helper
    wmr_ret,           \* what wmr_open_system_impl returned, "none" before
    wmr_estimate,      \* <<estimate>> of wmr_estimate_system, <<>> before
    wmr_calls          \* what the last builder call did with the prober's
                       \* device list and its entries, in order

wmrVars == <<wmr_prober, wmr_devs, wmr_xsysd, wmr_ubrh, wmr_ret, wmr_estimate, wmr_calls>>

(***************************************************************************)
(* Variables of the native-display target (comp_window_vk_display).        *)
(***************************************************************************)
VARIABLES
    vkd_instance,      \* vk->instance != VK_NULL_HANDLE
    vkd_attached,      \* how many displays are attached
    vkd_settings,      \* [vk_display, display] of the compositor settings
    vkd_displays,      \* w->displays[0 .. display_count - 1]
    vkd_ret,           \* what comp_window_vk_display_init returned, "none" before
    vkd_cts_display,   \* <<cts->display>> once init_swapchain has set it
    vkd_swap_ret       \* what comp_window_vk_display_init_swapchain returned

vkdVars == <<vkd_instance, vkd_attached, vkd_settings, vkd_displays, vkd_ret,
            vkd_cts_display, vkd_swap_ret>>

(***************************************************************************)
(* Variables of the Vive controller (vive_controller.c).                   *)
(***************************************************************************)
VARIABLES
    vc_d,              \* the device memory: "none", "alive", "freed"
    vc_hid,            \* the HID handle given to create: "open", "closed"
    vc_fusion_mutex,   \* d->fusion.mutex: "none", "init", "destroyed"
    vc_lock,           \* d->lock: "none", "init", "destroyed"
    vc_oth,            \* d->controller_thread: [initialized, running, owner]
    vc_pc,             \* where the read thread is
    vc_dpc,            \* where vive_controller_device_destroy is
    vc_ret,            \* what vive_controller_create returned, "none" before
    vc_reports,        \* reports decoded so far
    vc_late_reads,     \* HID reads that returned after the stop request
    vc_var_root        \* d is a root of the variable tracking (u_var)

vcVars == <<vc_d, vc_hid, vc_fusion_mutex, vc_lock, vc_oth, vc_pc, vc_dpc, vc_ret,
            vc_reports, vc_late_reads, vc_var_root>>

(***************************************************************************)
(* Variables of the Watchman message decoders (vive_controller.c).         *)
(***************************************************************************)
VARIABLES
    wm_msg,            \* the message: [gen, fl, tf, len]
    wm_out             \* what decoding it did: [buf, top, done]

wmVars == <<wm_msg, wm_out>>

(***************************************************************************)
(* Variables of the Survive event dispatch (survive_driver.c).             *)
(***************************************************************************)
VARIABLES
    sev_devs,          \* the tracked objects that have a device in the system
    sev_queue,         \* the event queue of the context
    sev_pushed,        \* how many events the context has queued so far
    sev_dev,           \* by object: [buttons, poses, flags, last] of its device
    sev_crashed        \* the process has crashed

sevVars == <<sev_devs, sev_queue, sev_pushed, sev_dev, sev_crashed>>

(***************************************************************************)
(* Variables of the shared memory helpers (ipc_shmem.c, the Unix build):   *)
(* one handle/pointer pair of a caller and what the process has open and   *)
(* mapped.                                                                 *)
(***************************************************************************)
VARIABLES
    shm_handle,        \* the caller's xrt_shmem_handle_t: a descriptor, -1: none
    shm_map,           \* the caller's pointer: a page, ShmNull or MAP_FAILED
    shm_fds,           \* the descriptors the process has open
    shm_mapped,        \* the pages the process has mapped
    shm_last,          \* what the last ipc_shmem_destroy found and did
    shm_remap          \* what the last ipc_shmem_map of the caller's handle did

shmVars == <<shm_handle, shm_map, shm_fds, shm_mapped, shm_last, shm_remap>>

(***************************************************************************)
(* Variables of the creation and destruction of the SLAM adapter           *)
(* (t_slam_create, t_slam_node_destroy).                                   *)
(***************************************************************************)
VARIABLES
    slc_cfg,           \* what t_slam_create was called with and built against
    slc_ret,           \* <<what t_slam_create returned>>, <<>> before
    slc_out,           \* *out_xts and *out_sink are set
    slc_objs,          \* by object of the adapter: "none", "alive", "freed"
    slc_var_root,      \* the adapter is a root of the variable tracking
    slc_released       \* what t_slam_node_destroy has released, in order

slcVars == <<slc_cfg, slc_ret, slc_out, slc_objs, slc_var_root, slc_released>>

(***************************************************************************)
(* Variables of the two threads that use the raw IMU ring buffers of the   *)
(* SLAM adapter (t.gyro_ff, t.accel_ff) and of their mutex (t.lock_ff).    *)
(***************************************************************************)
VARIABLES
    ff_lock,           \* t.lock_ff: "free" or the thread that holds it
    ff_imu_pc,         \* where the IMU thread is in t_slam_receive_imu
    ff_query_pc,       \* where the query thread is in predict_pose
    ff_pred_type,      \* t.pred_type of the query under way
    ff_pushes,         \* samples pushed to the buffers so far
    ff_queries         \* predictions made so far

ffVars == <<ff_lock, ff_imu_pc, ff_query_pc, ff_pred_type, ff_pushes, ff_queries>>

(***************************************************************************)
(* Variables of one CSV writer of the SLAM adapter and of the threads that *)
(* push rows to it.                                                        *)
(***************************************************************************)
VARIABLES
    csv_enabled,       \* CSVWriter::enabled, changed by the debug UI
    csv_created,       \* CSVWriter::created
    csv_mutex,         \* CSVWriter::mutex: "free" or the thread that holds it
    csv_file,          \* what the output file holds, in order
    csv_creates,       \* how many times create() has run
    csv_pc,            \* where each producer is in push
    csv_found,         \* what each producer read from enabled in its push
    csv_pushes         \* pushes started so far

csvVars == <<csv_enabled, csv_created, csv_mutex, csv_file, csv_creates, csv_pc,
             csv_found, csv_pushes>>

(***************************************************************************)
(* Variables of the simulated HMD.                                         *)
(***************************************************************************)
VARIABLES
    sim_movement,      \* dh->movement, set at construction
    sim_created_ns,    \* dh->created_ns
    sim_pose,          \* dh->pose
    sim_name,          \* <<name>> of the last pose query, <<>> before any
    sim_out,           \* the caller's relation after the last pose query
    sim_queries        \* pose queries so far

simVars == <<sim_movement, sim_created_ns, sim_pose, sim_name, sim_out, sim_queries>>

(***************************************************************************)
(* Variables of the choice of a display mode for a direct mode window.     *)
(***************************************************************************)
VARIABLES
    vkm_modes,         \* mode_properties[0 .. mode_count-1], as a sequence
    vkm_best           \* <<index>> returned by the choice, <<>> before it

vkmVars == <<vkm_modes, vkm_best>>

(***************************************************************************)
(* Variables of the haptic output of a Vive/Index controller.              *)
(***************************************************************************)
VARIABLES
    hap_value,         \* the value of the last set_output call
    hap_report,        \* <<report>> sent by that call, <<>> when it sent none
    hap_calls          \* set_output calls so far

hapVars == <<hap_value, hap_report, hap_calls>>

(***************************************************************************)
(* Variables of the merge of palm detections (rgb_nms.hpp).                *)
(***************************************************************************)
VARIABLES
    nms_detections,    \* the detections given to filterBoxesWeightedAvg
    nms_min_iou,       \* min_iou, in tenths
    nms_outs           \* <<outs>> it returned, <<>> before the call

nmsVars == <<nms_detections, nms_min_iou, nms_outs>>

(***************************************************************************)
(* Variables of the Android camera capture (YangCameraAndroid).            *)
(***************************************************************************)
VARIABLES
    cam_m_cameraManager,   \* the member m_cameraManager is not NULL
    cam_open,              \* the camera resources that are open
    cam_last,              \* the last call: "new", "initCamera", "closeCamera"
    cam_inits,             \* initCamera calls so far
    cam_closes             \* closeCamera calls so far

camVars == <<cam_m_cameraManager, cam_open, cam_last, cam_inits, cam_closes>>

(***************************************************************************)
(* Variables of two threads of the SLAM adapter that flush the engine's    *)
(* poses at the same time: the frame thread and the pose query thread.     *)
(***************************************************************************)
VARIABLES
    cf_made,           \* the poses the engine has produced, in order
    cf_queue,          \* the engine's output queue
    cf_rels,           \* t.slam_rels
    cf_counter,        \* t.dbg_pred_counter
    cf_pc,             \* where each thread is in flush_poses
    cf_np,             \* <<tracked_pose>> each thread holds, <<>> if none
    cf_calls           \* flush_poses calls so far

cfVars == <<cf_made, cf_queue, cf_rels, cf_counter, cf_pc, cf_np, cf_calls>>

(***************************************************************************)
(* Variables of ipc_shmem_create (the Unix build) run by two processes.    *)
(***************************************************************************)
VARIABLES
    shc_name,          \* the object /monado_shm names, 0 when the name is free
    shc_objects,       \* shared memory objects created so far
    shc_pc,            \* where each process is in ipc_shmem_create
    shc_fd,            \* the object the fd of each process refers to, 0: none
    shc_ret            \* what the call of each process returned, "none" before

shcVars == <<shc_name, shc_objects, shc_pc, shc_fd, shc_ret>>

(***************************************************************************)
(* The Vive HMD's pose query.  Poses are kept in the plane orthogonal to   *)
(* the x axis: position (y, z) and orientation r in quarter turns about x. *)
(***************************************************************************)
VARIABLES
    vhp_basalt,        \* the build has XRT_HAVE_BASALT
    vhp_slam_enabled,  \* d->tracking.slam_enabled
    vhp_slam_over_3dof, \* d->slam_over_3dof
    vhp_imu2me,        \* d->tracking.imu2me
    vhp_P_imu_me,      \* d->P_imu_me
    vhp_offset,        \* d->offset
    vhp_pose,          \* d->pose
    vhp_out            \* the queries so far: the pose returned, whether the
                       \* tracker reported a tracked pose, whether SLAM was used

vhpVars == <<vhp_basalt, vhp_slam_enabled, vhp_slam_over_3dof, vhp_imu2me, vhp_P_imu_me,
            vhp_offset, vhp_pose, vhp_out>>

\* The components added after the first six
extVars == <<vkdVars, vcVars, wmVars, sevVars, shmVars, slcVars, ffVars, csvVars, simVars, vkmVars, hapVars, nmsVars, camVars, cfVars, shcVars, vhpVars>>

vars == <<slamVars, surviveVars, ipcVars, viveVars, matVars, wmrVars, extVars>>
notSlam == <<surviveVars, ipcVars, viveVars, matVars, wmrVars, extVars>>
notSurvive == <<slamVars, ipcVars, viveVars, matVars, wmrVars, extVars>>
notIpc == <<slamVars, surviveVars, viveVars, matVars, wmrVars, extVars>>
notVive == <<slamVars, surviveVars, ipcVars, matVars, wmrVars, extVars>>
notMat == <<slamVars, surviveVars, ipcVars, viveVars, wmrVars, extVars>>
notWmr == <<slamVars, surviveVars, ipcVars, viveVars, matVars, extVars>>
firstVars == <<slamVars, surviveVars, ipcVars, viveVars, matVars, wmrVars>>
notVkd == <<firstVars, vcVars, wmVars, sevVars, shmVars, slcVars, ffVars, csvVars, simVars, vkmVars, hapVars, nmsVars, camVars, cfVars, shcVars, vhpVars>>
notVc == <<firstVars, vkdVars, wmVars, sevVars, shmVars, slcVars, ffVars, csvVars, simVars, vkmVars, hapVars, nmsVars, camVars, cfVars, shcVars, vhpVars>>
notWm == <<firstVars, vkdVars, vcVars, sevVars, shmVars, slcVars, ffVars, csvVars, simVars, vkmVars, hapVars, nmsVars, camVars, cfVars, shcVars, vhpVars>>
notSev == <<firstVars, vkdVars, vcVars, wmVars, shmVars, slcVars, ffVars, csvVars, simVars, vkmVars, hapVars, nmsVars, camVars, cfVars, shcVars, vhpVars>>
notShm == <<firstVars, vkdVars, vcVars, wmVars, sevVars, slcVars, ffVars, csvVars, simVars, vkmVars, hapVars, nmsVars, camVars, cfVars, shcVars, vhpVars>>
notSlc == <<firstVars, vkdVars, vcVars, wmVars, sevVars, shmVars, ffVars, csvVars, simVars, vkmVars, hapVars, nmsVars, camVars, cfVars, shcVars, vhpVars>>
notFf == <<firstVars, vkdVars, vcVars, wmVars, sevVars, shmVars, slcVars, csvVars, simVars, vkmVars, hapVars, nmsVars, camVars, cfVars, shcVars, vhpVars>>
notCsv == <<firstVars, vkdVars, vcVars, wmVars, sevVars, shmVars, slcVars, ffVars, simVars, vkmVars, hapVars, nmsVars, camVars, cfVars, shcVars, vhpVars>>
notSim == <<firstVars, vkdVars, vcVars, wmVars, sevVars, shmVars, slcVars, ffVars, csvVars, vkmVars, hapVars, nmsVars, camVars, cfVars, shcVars, vhpVars>>
notVkm == <<firstVars, vkdVars, vcVars, wmVars, sevVars, shmVars, slcVars, ffVars, csvVars, simVars, hapVars, nmsVars, camVars, cfVars, shcVars, vhpVars>>
notHap == <<firstVars, vkdVars, vcVars, wmVars, sevVars, shmVars, slcVars, ffVars, csvVars, simVars, vkmVars, nmsVars, camVars, cfVars, shcVars, vhpVars>>
notNms == <<firstVars, vkdVars, vcVars, wmVars, sevVars, shmVars, slcVars, ffVars, csvVars, simVars, vkmVars, hapVars, camVars, cfVars, shcVars, vhpVars>>
notCam == <<firstVars, vkdVars, vcVars, wmVars, sevVars, shmVars, slcVars, ffVars, csvVars, simVars, vkmVars, hapVars, nmsVars, cfVars, shcVars, vhpVars>>
notCf == <<firstVars, vkdVars, vcVars, wmVars, sevVars, shmVars, slcVars, ffVars, csvVars, simVars, vkmVars, hapVars, nmsVars, camVars, shcVars, vhpVars>>
notShc == <<firstVars, vkdVars, vcVars, wmVars, sevVars, shmVars, slcVars, ffVars, csvVars, simVars, vkmVars, hapVars, nmsVars, camVars, cfVars, vhpVars>>
notVhp == <<firstVars, vkdVars, vcVars, wmVars, sevVars, shmVars, slcVars, ffVars, csvVars, simVars, vkmVars, hapVars, nmsVars, camVars, cfVars, shcVars>>

(***************************************************************************)
(* Space relations.                                                        *)
(***************************************************************************)
XRT_SPACE_RELATION_ZERO == [flags |-> "NONE", p |-> 0, o |-> 0, v |-> 0, w |-> 0]

\* enum t_slam_prediction_type
SLAM_PRED_NONE == 0
SLAM_PRED_SP_SO_SA_SL == 1
SLAM_PRED_SP_SO_IA_SL == 2
SLAM_PRED_SP_SO_IA_IL == 3
SLAM_PRED_IP_IO_IA_IL == 4
SLAM_PRED_COUNT == 5
PredTypes == SLAM_PRED_NONE..(SLAM_PRED_COUNT - 1)

\* t.gravity_correction, in the units of the model's accelerations
gravity_correction == -1

\* m_predict_relation: integrate the velocities over dt
m_predict_relation(rel, dt) ==
    [rel EXCEPT !.p = rel.p + rel.v * dt, !.o = rel.o + rel.w * dt]

(***************************************************************************)
(* RelationHistory                                                         *)
(***************************************************************************)
RelationHistory_push(h, rel, ts) == Append(h, [ts |-> ts, rel |-> rel])

\* Integer interpolation between two entries of the history.
RelationHistory_lerp(a, b, when) ==
    LET span == b.ts - a.ts
        k == when - a.ts
    IN [flags |-> "ALL",
        p |-> a.rel.p + ((b.rel.p - a.rel.p) * k) \div span,
        o |-> a.rel.o + ((b.rel.o - a.rel.o) * k) \div span,
        v |-> a.rel.v + ((b.rel.v - a.rel.v) * k) \div span,
        w |-> a.rel.w + ((b.rel.w - a.rel.w) * k) \div span]

\* get: the pushed relation at a pushed timestamp, the oldest before the
\* oldest, an extrapolation after the latest, an interpolation in between;
\* the flags are set to all valid.
RelationHistory_get(h, when) ==
    IF h = <<>> THEN XRT_SPACE_RELATION_ZERO
    ELSE IF when <= h[1].ts THEN [h[1].rel EXCEPT !.flags = "ALL"]
    ELSE IF when > h[Len(h)].ts
         THEN [m_predict_relation(h[Len(h)].rel, when - h[Len(h)].ts)
                 EXCEPT !.flags = "ALL"]
    ELSE LET i == CHOOSE j \in 1..(Len(h) - 1) : h[j].ts < when /\ when <= h[j + 1].ts
         IN IF h[i + 1].ts = when
            THEN [h[i + 1].rel EXCEPT !.flags = "ALL"]
            ELSE RelationHistory_lerp(h[i], h[i + 1], when)

(***************************************************************************)
(* m_ff_vec3_f32: a fifo of timestamped samples, newest first              *)
(***************************************************************************)
m_ff_push(ff, x, ts) == <<[ts |-> ts, x |-> x]>> \o ff

\* The average of the samples with start <= ts <= stop, 0 when there is none.
m_ff_filter(ff, start, stop) ==
    LET IsIn(e) == start <= e.ts /\ e.ts <= stop
        sel == SelectSeq(ff, IsIn)
    IN IF sel = <<>> THEN 0
       ELSE SumSeq([i \in 1..Len(sel) |-> sel[i].x]) \div Len(sel)

\* CSVWriter::push: the rows written after pushing more, by the enabled flag
CSVWriter_push(enabled, rows, pushed) == IF enabled THEN pushed ELSE rows

(***************************************************************************)
(* flush_poses: dequeue every pose of the engine and process each.         *)
(* q is the engine's queue; u is the relation read through the             *)
(* uninitialised lts when the history is empty (any velocity).  The result *)
(* holds what is left of the queue, the history, the counter and traj      *)
(* extended by the rows pushed to the tracked-trajectory writer.           *)
(***************************************************************************)
flush_pose(np, rels, counter, every, u) ==
    LET empty == rels = <<>>
        lr == IF empty THEN XRT_SPACE_RELATION_ZERO ELSE rels[Len(rels)].rel
        dt == IF empty THEN 1 ELSE np.ts - rels[Len(rels)].ts
        rel == [flags |-> "ALL", p |-> np.p, o |-> np.o,
                v |-> IF empty THEN u.v ELSE (np.p - lr.p) \div dt,
                w |-> IF empty THEN u.w ELSE (np.o - lr.o) \div dt]
        kept == counter % every = 0
    IN [rels |-> IF kept THEN RelationHistory_push(rels, rel, np.ts) ELSE rels,
        counter |-> (counter + 1) % every,
        row |-> [ts |-> np.ts, p |-> np.p, o |-> np.o]]

RECURSIVE flush_loop(_, _, _, _, _, _)
flush_loop(q, rels, counter, every, traj, u) ==
    IF q = <<>>
    THEN [queue |-> q, rels |-> rels, counter |-> counter, traj |-> traj]
    ELSE LET r == flush_pose(Head(q), rels, counter, every, u)
         IN flush_loop(Tail(q), r.rels, r.counter, every, Append(traj, r.row), u)

\* A flush that handles one pose and returns.
flush_poses_once(q, rels, counter, every, traj, u) ==
    IF q = <<>>
    THEN [queue |-> q, rels |-> rels, counter |-> counter, traj |-> traj]
    ELSE LET r == flush_pose(Head(q), rels, counter, every, u)
         IN [queue |-> Tail(q), rels |-> r.rels, counter |-> r.counter,
             traj |-> Append(traj, r.row)]

flush_poses(q, rels, counter, every, traj, u) ==
    flush_loop(q, rels, counter, every, traj, u)

\* The velocities a first pose can get.
UninitVels == {[v |-> 0, w |-> 0], [v |-> 1, w |-> 1]}

(***************************************************************************)
(* predict_pose_from_imu: integrate the IMU samples newer than the base    *)
(* pose on top of it, then predict from the result.                        *)
(***************************************************************************)
\* m_ff_vec3_f32_get at C index i: nothing is written when i is out of range
m_ff_get(ff, i) ==
    IF i >= 0 /\ i < Len(ff) THEN [got |-> TRUE, ts |-> ff[i + 1].ts, x |-> ff[i + 1].x]
    ELSE [got |-> FALSE, ts |-> 0, x |-> 0]

\* The index the search loop ends with: one before the first sample older
\* than the base pose, or the number of samples when there is none.
imu_start_index(ff, base_rel_ts) ==
    LET older == {i \in 0..(Len(ff) - 1) : ff[i + 1].ts < base_rel_ts}
    IN IF older = {} THEN Len(ff)
       ELSE (CHOOSE i \in older : \A j \in older : i <= j) - 1

RECURSIVE imu_integrate(_, _, _, _, _, _)
imu_integrate(gff, aff, i, integ_rel, integ_rel_ts, when_ns) ==
    IF i < 0 THEN [rel |-> integ_rel, ts |-> integ_rel_ts]
    ELSE LET g == m_ff_get(gff, i)
             a == m_ff_get(aff, i)
             clamped == g.ts > when_ns
             ts == IF clamped THEN when_ns ELSE g.ts
             dt == ts - integ_rel_ts
             o == integ_rel.o + g.x * dt
             w == g.x
             world_accel == a.x + gravity_correction
             v == integ_rel.v + world_accel * dt
             p == integ_rel.p + v * dt + (world_accel * dt * dt) \div 2
             rel == [integ_rel EXCEPT !.p = p, !.o = o, !.v = v, !.w = w]
         IN IF clamped THEN [rel |-> rel, ts |-> ts]
            ELSE imu_integrate(gff, aff, i - 1, rel, ts, when_ns)

predict_pose_from_imu(gff, aff, when_ns, base_rel, base_rel_ts) ==
    LET r == imu_integrate(gff, aff, imu_start_index(gff, base_rel_ts),
                           base_rel, base_rel_ts, when_ns)
    IN m_predict_relation(r.rel, when_ns - r.ts)

(***************************************************************************)
(* predict_pose: the best guess of the relation at when_ns.                *)
(***************************************************************************)
\* predict_pose without the fallback for a query at or before the last pose
predict_pose_no_fallback(ptype, rels, gff, aff, imu_ts, when_ns) ==
    LET rel == rels[Len(rels)].rel
        rel_ts == rels[Len(rels)].ts
        avg_gyro == m_ff_filter(gff, rel_ts, when_ns)
        rel1 == IF ptype >= SLAM_PRED_SP_SO_IA_SL
                THEN [rel EXCEPT !.w = avg_gyro] ELSE rel
        world_accel == m_ff_filter(aff, rel_ts, when_ns) + gravity_correction
        rel2 == IF ptype >= SLAM_PRED_SP_SO_IA_IL
                THEN [rel1 EXCEPT !.v = rel1.v + world_accel * (imu_ts - rel_ts)]
                ELSE rel1
    IN IF rels = <<>> THEN [XRT_SPACE_RELATION_ZERO EXCEPT !.flags = "NONE"]
       ELSE IF ptype = SLAM_PRED_NONE THEN rel
       ELSE IF ptype = SLAM_PRED_SP_SO_SA_SL THEN RelationHistory_get(rels, when_ns)
       ELSE IF ptype = SLAM_PRED_IP_IO_IA_IL
            THEN predict_pose_from_imu(gff, aff, when_ns, rel, rel_ts)
       ELSE m_predict_relation(rel2, when_ns - rel_ts)

\* predict_pose leaving the flags as they are when the history is empty
predict_pose_flags_kept(ptype, rels, gff, aff, imu_ts, when_ns) ==
    IF rels = <<>> THEN [XRT_SPACE_RELATION_ZERO EXCEPT !.flags = "ALL"]
    ELSE RelationHistory_get(rels, when_ns)

predict_pose(ptype, rels, gff, aff, imu_ts, when_ns) ==
    LET rel == rels[Len(rels)].rel
        rel_ts == rels[Len(rels)].ts
        avg_gyro == m_ff_filter(gff, rel_ts, when_ns)
        rel1 == IF ptype >= SLAM_PRED_SP_SO_IA_SL
                THEN [rel EXCEPT !.w = avg_gyro] ELSE rel
        world_accel == m_ff_filter(aff, rel_ts, when_ns) + gravity_correction
        rel2 == IF ptype >= SLAM_PRED_SP_SO_IA_IL
                THEN [rel1 EXCEPT !.v = rel1.v + world_accel * (imu_ts - rel_ts)]
                ELSE rel1
    IN IF rels = <<>> THEN [XRT_SPACE_RELATION_ZERO EXCEPT !.flags = "NONE"]
       ELSE IF ptype = SLAM_PRED_NONE THEN rel
       ELSE IF ptype = SLAM_PRED_SP_SO_SA_SL \/ when_ns <= rel_ts
            THEN RelationHistory_get(rels, when_ns)
       ELSE IF ptype = SLAM_PRED_IP_IO_IA_IL
            THEN predict_pose_from_imu(gff, aff, when_ns, rel, rel_ts)
       ELSE m_predict_relation(rel2, when_ns - rel_ts)

(***************************************************************************)
(* filter_pose: moving average, exponential smoothing, one euro.           *)
(***************************************************************************)
\* t.filter.window (ms), in ns
filter_window_ns == 66 * 1000000

\* m_space_relation_interpolate(last, target, alpha = 0.1, target.flags)
m_space_relation_interpolate(a, b) ==
    [flags |-> b.flags,
     p |-> a.p + (b.p - a.p) \div 10, o |-> a.o + (b.o - a.o) \div 10,
     v |-> a.v + (b.v - a.v) \div 10, w |-> a.w + (b.w - a.w) \div 10]

\* m_filter_euro_*_run: the first sample passes, later ones are low-passed
m_filter_euro_run(f, x) ==
    LET y == IF f.have THEN f.prev + (x - f.prev) \div 2 ELSE x
    IN [f |-> [have |-> TRUE, prev |-> y], y |-> y]

filter_pose(f, when_ns, rel) ==
    LET valid == rel.flags = "ALL"
        \* moving average
        pos_ff == IF f.use_moving_average_filter /\ valid
                  THEN m_ff_push(f.pos_ff, rel.p, when_ns) ELSE f.pos_ff
        rot_ff == IF f.use_moving_average_filter /\ valid
                  THEN m_ff_push(f.rot_ff, rel.o, when_ns) ELSE f.rot_ff
        r1 == IF f.use_moving_average_filter
              THEN [rel EXCEPT
                      !.p = m_ff_filter(pos_ff, when_ns - filter_window_ns, when_ns),
                      !.o = m_ff_filter(rot_ff, when_ns - filter_window_ns, when_ns)]
              ELSE rel
        \* exponential smoothing
        last == IF f.use_exponential_smoothing_filter
                THEN m_space_relation_interpolate(f.last, r1) ELSE f.last
        r2 == IF f.use_exponential_smoothing_filter THEN last ELSE r1
        \* one euro
        euro == f.use_one_euro_filter /\ r2.flags = "ALL"
        ep == m_filter_euro_run(f.pos_oe, r2.p)
        eo == m_filter_euro_run(f.rot_oe, r2.o)
        r3 == IF euro THEN [r2 EXCEPT !.p = ep.y, !.o = eo.y] ELSE r2
    IN [filter |-> [f EXCEPT !.pos_ff = pos_ff, !.rot_ff = rot_ff, !.last = last,
                             !.pos_oe = IF euro THEN ep.f ELSE f.pos_oe,
                             !.rot_oe = IF euro THEN eo.f ELSE f.rot_oe],
        rel |-> r3]

FilterInit ==
    [use_moving_average_filter |-> FALSE, pos_ff |-> <<>>, rot_ff |-> <<>>,
     use_exponential_smoothing_filter |-> FALSE, last |-> XRT_SPACE_RELATION_ZERO,
     use_one_euro_filter |-> FALSE,
     pos_oe |-> [have |-> FALSE, prev |-> 0], rot_oe |-> [have |-> FALSE, prev |-> 0]]

(***************************************************************************)
(* Ground truth: t.gt.trajectory maps timestamps to positions.             *)
(***************************************************************************)
get_gt_pose_at(tr, ts) ==
    LET K == DOMAIN tr
        up == {k \in K : k > ts}
        lo == K \ up
        first == CHOOSE k \in K : \A j \in K : k <= j
        final == CHOOSE k \in K : \A j \in K : k >= j
        lts == CHOOSE k \in lo : \A j \in lo : k >= j
        rts == CHOOSE k \in up : \A j \in up : k <= j
    IN IF K = {} THEN 0
       ELSE IF up = K THEN tr[first]
       ELSE IF up = {} THEN tr[final]
       ELSE tr[lts] + ((tr[rts] - tr[lts]) * (ts - lts)) \div (rts - lts)

\* gt2xr_pose: back from the ground truth's frame (a half turn about z)
gt2xr_pose(gt_origin, gt_pose) == 0 - (gt_pose - gt_origin)

GtInit == [trajectory |-> <<>>, origin |-> 0, override_tracking |-> FALSE]

(***************************************************************************)
(* The SLAM adapter after t_slam_create.                                   *)
(***************************************************************************)
SlamInit ==
    /\ submit \in BOOLEAN                  \* config->submit_from_start
    /\ last_imu_ts = INT64_MIN
    /\ last_cam_ts = [c \in Cams |-> INT64_MIN]
    /\ gyro_ff = <<>>
    /\ accel_ff = <<>>
    /\ slam_state = "initialized"
    /\ slam_in = <<>>
    /\ slam_queue = <<>>
    /\ slam_made = <<>>
    /\ oth = "init"
    /\ ovr_tracker \in {"null", "running"} \* config->openvr_groundtruth_device
    /\ ba_pc = "idle"
    /\ slam_rels = <<>>
    /\ dbg_pred_every = 1
    /\ dbg_pred_counter = 0
    /\ slam_traj = <<>>
    /\ pred_type \in PredTypes             \* config->prediction
    /\ last_rel = XRT_SPACE_RELATION_ZERO
    /\ last_ts = 0
    /\ filter = FilterInit
    /\ gt = GtInit
    /\ pred_traj = <<>>
    /\ filt_traj = <<>>
    /\ \E write_csvs \in BOOLEAN :        \* config->write_csvs
          writer_enabled = [slam_traj |-> write_csvs, pred_traj |-> write_csvs,
                            filt_traj |-> write_csvs]
    /\ query = [when |-> 0, out_relation |-> XRT_SPACE_RELATION_ZERO]
    /\ n_queries = 0

SlamIdle ==
    /\ submit = FALSE
    /\ last_imu_ts = INT64_MIN
    /\ last_cam_ts = [c \in Cams |-> INT64_MIN]
    /\ gyro_ff = <<>>
    /\ accel_ff = <<>>
    /\ slam_state = "initialized"
    /\ slam_in = <<>>
    /\ slam_queue = <<>>
    /\ slam_made = <<>>
    /\ oth = "init"
    /\ ovr_tracker = "null"
    /\ ba_pc = "idle"
    /\ slam_rels = <<>>
    /\ dbg_pred_every = 1
    /\ dbg_pred_counter = 0
    /\ slam_traj = <<>>
    /\ pred_type = SLAM_PRED_IP_IO_IA_IL
    /\ last_rel = XRT_SPACE_RELATION_ZERO
    /\ last_ts = 0
    /\ filter = FilterInit
    /\ gt = GtInit
    /\ pred_traj = <<>>
    /\ filt_traj = <<>>
    /\ writer_enabled = [slam_traj |-> FALSE, pred_traj |-> FALSE, filt_traj |-> FALSE]
    /\ query = [when |-> 0, out_relation |-> XRT_SPACE_RELATION_ZERO]
    /\ n_queries = 0

\* The engine has been told to finalize (or to stop).
Finalized == slam_state \in {"finalized", "stopped"}

(***************************************************************************)
(* Sinks                                                                   *)
(***************************************************************************)
\* t_slam_receive_imu: a sample with timestamp ts, acceleration a, rate w
t_slam_receive_imu(ts, a, w) ==
    /\ Len(slam_in) < MaxInputs
    /\ IF ts <= last_imu_ts
       THEN UNCHANGED <<last_imu_ts, slam_in, gyro_ff, accel_ff>>
       ELSE /\ last_imu_ts' = ts
            /\ slam_in' = IF submit
                          THEN Append(slam_in, [kind |-> "imu", cam |-> 0, ts |-> ts,
                                                fin |-> Finalized])
                          ELSE slam_in
            /\ gyro_ff' = m_ff_push(gyro_ff, w, ts)
            /\ accel_ff' = m_ff_push(accel_ff, a, ts)
    /\ UNCHANGED <<submit, last_cam_ts, engineVars, flushVars, queryVars, uiVars, gt>>
    /\ UNCHANGED notSlam

\* receive_frame, reached from t_slam_receive_cam<cam_index>
receive_frame(cam_index, ts, u) ==
    LET f == IF cam_index = cam_count - 1
             THEN flush_poses(slam_queue, slam_rels, dbg_pred_counter,
                              dbg_pred_every, slam_traj, u)
             ELSE [queue |-> slam_queue, rels |-> slam_rels,
                   counter |-> dbg_pred_counter, traj |-> slam_traj]
    IN /\ Len(slam_in) < MaxInputs
       /\ slam_queue' = f.queue
       /\ slam_rels' = f.rels
       /\ dbg_pred_counter' = f.counter
       /\ slam_traj' = CSVWriter_push(writer_enabled.slam_traj, slam_traj, f.traj)
       /\ last_cam_ts' = [last_cam_ts EXCEPT ![cam_index] = ts]
       /\ slam_in' = IF submit
                     THEN Append(slam_in, [kind |-> "cam", cam |-> cam_index, ts |-> ts,
                                           fin |-> Finalized])
                     ELSE slam_in
       /\ UNCHANGED <<submit, last_imu_ts, gyro_ff, accel_ff, slam_state, slam_made,
                      oth, ovr_tracker, ba_pc, queryVars, uiVars, gt>>
       /\ UNCHANGED notSlam

\* t_slam_gt_sink_push: a ground-truth position p at ts
t_slam_gt_sink_push(ts, p) ==
    /\ gt' = [gt EXCEPT
                !.origin = IF DOMAIN gt.trajectory = {} THEN p ELSE @,
                !.trajectory = [k \in DOMAIN gt.trajectory \cup {ts} |->
                                   IF k = ts THEN p ELSE gt.trajectory[k]]]
    /\ UNCHANGED <<sinkVars, engineVars, flushVars, queryVars, uiVars>>
    /\ UNCHANGED notSlam

(***************************************************************************)
(* t_slam_get_tracked_pose                                                 *)
(***************************************************************************)
\* A query that never takes the cached relation
query_never_cached(when_ns, ts) == FALSE

\* The test of the cache: the query is for the timestamp of the last one
query_is_cached(when_ns, ts) == when_ns = ts

t_slam_get_tracked_pose(when_ns, u) ==
    /\ n_queries < MaxQueries
    /\ n_queries' = n_queries + 1
    /\ IF query_is_cached(when_ns, last_ts)
       THEN /\ query' = [when |-> when_ns, out_relation |-> last_rel]
            /\ UNCHANGED <<slam_queue, flushVars, last_rel, last_ts, filter,
                           pred_traj, filt_traj>>
       ELSE LET f == flush_poses(slam_queue, slam_rels, dbg_pred_counter,
                                 dbg_pred_every, slam_traj, u)
                pr == predict_pose(pred_type, f.rels, gyro_ff, accel_ff,
                                   last_imu_ts, when_ns)
                fl == filter_pose(filter, when_ns, pr)
                out == IF gt.override_tracking
                       THEN [fl.rel EXCEPT
                               !.p = gt2xr_pose(gt.origin,
                                                get_gt_pose_at(gt.trajectory, when_ns)),
                               !.o = 0]
                       ELSE fl.rel
            IN /\ slam_queue' = f.queue
               /\ slam_rels' = f.rels
               /\ dbg_pred_counter' = f.counter
               /\ slam_traj' = CSVWriter_push(writer_enabled.slam_traj, slam_traj, f.traj)
               /\ pred_traj' = CSVWriter_push(writer_enabled.pred_traj, pred_traj,
                                    Append(pred_traj, [ts |-> when_ns, p |-> pr.p,
                                                       o |-> pr.o]))
               /\ filter' = fl.filter
               /\ filt_traj' = CSVWriter_push(writer_enabled.filt_traj, filt_traj,
                                    Append(filt_traj, [ts |-> when_ns, p |-> fl.rel.p,
                                                       o |-> fl.rel.o]))
               /\ last_rel' = fl.rel
               /\ last_ts' = when_ns
               /\ query' = [when |-> when_ns, out_relation |-> out]
    /\ UNCHANGED <<sinkVars, slam_state, slam_made, oth, ovr_tracker, ba_pc, uiVars, gt>>
    /\ UNCHANGED notSlam

(***************************************************************************)
(* The variables the debug UI edits (setup_ui)                             *)
(***************************************************************************)
ui_toggle_submit ==
    /\ submit' = ~submit
    /\ UNCHANGED <<last_imu_ts, last_cam_ts, gyro_ff, accel_ff, slam_in, engineVars,
                   flushVars, queryVars, uiVars, gt>>
    /\ UNCHANGED notSlam

ui_set_pred_type(m) ==
    /\ pred_type' = m
    /\ UNCHANGED <<sinkVars, engineVars, flushVars, queryVars, dbg_pred_every,
                   writer_enabled, gt>>
    /\ UNCHANGED notSlam

ui_set_dbg_pred_every(n) ==
    /\ dbg_pred_every' = n
    /\ UNCHANGED <<sinkVars, engineVars, flushVars, queryVars, pred_type,
                   writer_enabled, gt>>
    /\ UNCHANGED notSlam

ui_toggle_override_tracking ==
    /\ gt' = [gt EXCEPT !.override_tracking = ~@]
    /\ UNCHANGED <<sinkVars, engineVars, flushVars, queryVars, uiVars>>
    /\ UNCHANGED notSlam

ui_toggle_filter(which) ==
    /\ filter' = [filter EXCEPT ![which] = ~@]
    /\ UNCHANGED <<sinkVars, engineVars, flushVars, last_rel, last_ts, pred_traj,
                   filt_traj, query, n_queries, uiVars, gt>>
    /\ UNCHANGED notSlam

(***************************************************************************)
(* The engine and its thread                                               *)
(***************************************************************************)
\* t_slam_start: the thread runs t_slam_run, which starts the engine
t_slam_start ==
    /\ oth = "init"
    /\ ba_pc = "idle"
    /\ oth' = "running"
    /\ slam_state' = "running"
    /\ UNCHANGED <<sinkVars, slam_queue, slam_made, ovr_tracker, ba_pc, flushVars,
                   queryVars, uiVars, gt>>
    /\ UNCHANGED notSlam

\* The poses the engine estimates.
EnginePoses == {[p |-> 0, o |-> 0], [p |-> 2, o |-> 1]}

\* The running engine puts a pose, newer than its last, in its output queue.
slam_enqueue_pose(ts, x) ==
    /\ slam_state = "running"
    /\ Len(slam_made) < MaxPoses
    /\ IF slam_made = <<>> THEN TRUE ELSE ts > slam_made[Len(slam_made)].ts
    /\ slam_queue' = Append(slam_queue, [ts |-> ts, p |-> x.p, o |-> x.o])
    /\ slam_made' = Append(slam_made, [ts |-> ts, p |-> x.p, o |-> x.o])
    /\ UNCHANGED <<sinkVars, slam_state, oth, ovr_tracker, ba_pc, flushVars, queryVars,
                   uiVars, gt>>
    /\ UNCHANGED notSlam

(***************************************************************************)
(* t_slam_node_break_apart, one call at a time                             *)
(***************************************************************************)
break_apart_ovr ==
    /\ ba_pc = "idle"
    /\ ovr_tracker' = IF ovr_tracker # "null" THEN "stopped" ELSE ovr_tracker
    /\ ba_pc' = "ovr"
    /\ UNCHANGED <<sinkVars, slam_state, slam_queue, slam_made, oth, flushVars,
                   queryVars, uiVars, gt>>
    /\ UNCHANGED notSlam

break_apart_finalize ==
    /\ ba_pc = "ovr"
    /\ slam_state' = "finalized"
    /\ ba_pc' = "finalize"
    /\ UNCHANGED <<sinkVars, slam_queue, slam_made, oth, ovr_tracker, flushVars,
                   queryVars, uiVars, gt>>
    /\ UNCHANGED notSlam

break_apart_stop ==
    /\ ba_pc = "finalize"
    /\ slam_state' = "stopped"
    /\ ba_pc' = "stop"
    /\ UNCHANGED <<sinkVars, slam_queue, slam_made, oth, ovr_tracker, flushVars,
                   queryVars, uiVars, gt>>
    /\ UNCHANGED notSlam

break_apart_join ==
    /\ ba_pc = "stop"
    /\ oth' = "joined"
    /\ ba_pc' = "done"
    /\ UNCHANGED <<sinkVars, slam_state, slam_queue, slam_made, ovr_tracker, flushVars,
                   queryVars, uiVars, gt>>
    /\ UNCHANGED notSlam

(***************************************************************************)
(* The libsurvive driver: one context shared by the HMD and controllers.   *)
(***************************************************************************)
\* index in sys->controllers[]
SURVIVE_LEFT_CONTROLLER_INDEX == 0
SURVIVE_RIGHT_CONTROLLER_INDEX == 1
MAX_TRACKED_DEVICE_COUNT == 16

\* enum VIVE_CONTROLLER_VARIANT
CONTROLLER_VIVE_WAND == 0
CONTROLLER_INDEX_LEFT == 1
CONTROLLER_INDEX_RIGHT == 2
CONTROLLER_TRACKER_GEN1 == 3

SurviveSlots == 0..(MAX_TRACKED_DEVICE_COUNT - 1)
SurviveDevIds == 1..3
SurviveNoDev == [state |-> "none", variant |-> -1]

SsZero == [ctx |-> "none", hmd |-> 0, controllers |-> [i \in SurviveSlots |-> 0]]

SurviveIdle ==
    /\ survive_already_initialized = FALSE
    /\ ss = SsZero
    /\ ss_alloc = "none"
    /\ survive_devs = [d \in SurviveDevIds |-> SurviveNoDev]
    /\ survive_closes = 0
    /\ survive_frees = 0
    /\ survive_crashed = FALSE
    /\ survive_out = <<>>

\* U_DEVICE_ALLOCATE: the next device
survive_new_dev(devs) == 1 + Cardinality({d \in SurviveDevIds : devs[d].state # "none"})

\* _create_hmd_device on st = [ss, devs]
create_hmd_device(st) ==
    LET survive == survive_new_dev(st.devs)
    IN [ss |-> [st.ss EXCEPT !.hmd = survive],
        devs |-> [st.devs EXCEPT ![survive] = [state |-> "alive", variant |-> -1]]]

\* _create_controller_device on st = [ss, devs]
create_controller_device(st, variant) ==
    LET c == st.ss.controllers
        idx == IF variant = CONTROLLER_VIVE_WAND
               THEN IF c[SURVIVE_LEFT_CONTROLLER_INDEX] = 0
                    THEN SURVIVE_LEFT_CONTROLLER_INDEX
                    ELSE IF c[SURVIVE_RIGHT_CONTROLLER_INDEX] = 0
                         THEN SURVIVE_RIGHT_CONTROLLER_INDEX
                         ELSE -1
               ELSE IF variant = CONTROLLER_INDEX_LEFT
               THEN IF c[SURVIVE_LEFT_CONTROLLER_INDEX] = 0
                    THEN SURVIVE_LEFT_CONTROLLER_INDEX ELSE -1
               ELSE IF variant = CONTROLLER_INDEX_RIGHT
               THEN IF c[SURVIVE_RIGHT_CONTROLLER_INDEX] = 0
                    THEN SURVIVE_RIGHT_CONTROLLER_INDEX ELSE -1
               ELSE -1
        survive == survive_new_dev(st.devs)
    IN IF idx = -1 THEN st
       ELSE [ss |-> [st.ss EXCEPT !.controllers[idx] = survive],
             devs |-> [st.devs EXCEPT ![survive] = [state |-> "alive",
                                                    variant |-> variant]]]

\* add_device: one config event e = [type, variant]
add_device(st, e) ==
    IF e.type = "HMD" THEN create_hmd_device(st)
    ELSE IF e.type = "OBJECT"
            /\ e.variant \in {CONTROLLER_VIVE_WAND, CONTROLLER_INDEX_LEFT,
                              CONTROLLER_INDEX_RIGHT}
         THEN create_controller_device(st, e.variant)
    ELSE st

\* add_connected_devices: every config event libsurvive has queued
RECURSIVE add_connected_devices(_, _)
add_connected_devices(st, evs) ==
    IF evs = <<>> THEN st
    ELSE add_connected_devices(add_device(st, Head(evs)), Tail(evs))

\* The config events of the objects libsurvive can know: at most one HMD.
MaxConfigEvents == 3
ConfigEvents ==
    {[type |-> "HMD", variant |-> -1], [type |-> "OTHER", variant |-> -1]}
    \cup {[type |-> "OBJECT", variant |-> v] :
             v \in CONTROLLER_VIVE_WAND..CONTROLLER_TRACKER_GEN1}
ConfigEventSeqs ==
    {evs \in UNION {[1..n -> ConfigEvents] : n \in 0..MaxConfigEvents} :
        Cardinality({i \in DOMAIN evs : evs[i].type = "HMD"}) <= 1}

\* The entries survive_found writes to out_xdevs from the system c: the HMD
\* when there is one, then &controllers[i]->base of the left and the right
\* slot, whose tests are on the address of the slot and so always pass; 0
\* is the null device
survive_found_out_xdevs(c) ==
    (IF c.hmd # 0 THEN <<c.hmd>> ELSE <<>>)
    \o <<c.controllers[SURVIVE_LEFT_CONTROLLER_INDEX],
         c.controllers[SURVIVE_RIGHT_CONTROLLER_INDEX]>>

\* survive_found: init_ok is whether survive_simple_init gave a context
survive_found(init_ok, evs) ==
    /\ IF survive_already_initialized \/ ~init_ok
       THEN /\ survive_out' = <<<<>>>>
            /\ UNCHANGED <<survive_already_initialized, ss, ss_alloc, survive_devs>>
       ELSE LET st == add_connected_devices(
                          [ss |-> [SsZero EXCEPT !.ctx = "open"], devs |-> survive_devs],
                          evs)
            IN /\ ss' = st.ss
               /\ ss_alloc' = "alive"
               /\ survive_devs' = st.devs
               /\ survive_already_initialized' = TRUE
               /\ survive_out' = <<survive_found_out_xdevs(st.ss)>>
    /\ UNCHANGED <<survive_closes, survive_frees, survive_crashed>>
    /\ UNCHANGED notSurvive

\* Whether survive_device_destroy finds every device gone, on the system
\* contents c it reads after clearing its own slots.
survive_all_gone(c) ==
    LET all_null == /\ c.controllers[CONTROLLER_INDEX_LEFT] = 0
                    /\ c.controllers[CONTROLLER_INDEX_RIGHT] = 0
    IN c.hmd = 0 /\ all_null

\* survive_device_destroy of device d.  When the system has been freed the
\* function reads freed memory: it may read the contents as they were left
\* ("read"), find other data there ("reused"), or crash.
survive_device_destroy(d, outcome) ==
    LET cleared == [ss EXCEPT
                      !.hmd = IF d = ss.hmd THEN 0 ELSE @,
                      !.controllers = [i \in SurviveSlots |->
                                          IF ss.controllers[i] = d THEN 0
                                          ELSE ss.controllers[i]]]
        teardown == survive_all_gone(cleared)
    IN /\ survive_devs[d].state = "alive"
       /\ ~survive_crashed
       /\ ss_alloc = "alive" => outcome = "read"
       /\ IF outcome = "crash"
          THEN /\ survive_crashed' = TRUE
               /\ UNCHANGED <<ss, ss_alloc, survive_devs, survive_closes, survive_frees>>
          ELSE IF outcome = "reused"
          THEN /\ survive_devs' = [survive_devs EXCEPT ![d].state = "freed"]
               /\ UNCHANGED <<ss, ss_alloc, survive_closes, survive_frees,
                              survive_crashed>>
          ELSE /\ survive_devs' = [survive_devs EXCEPT ![d].state = "freed"]
               /\ ss' = IF teardown
                        THEN [cleared EXCEPT !.ctx = "closed",
                                             !.controllers = [i \in SurviveSlots |-> 0]]
                        ELSE cleared
               /\ ss_alloc' = IF teardown THEN "freed" ELSE ss_alloc
               /\ survive_closes' = IF teardown THEN survive_closes + 1
                                    ELSE survive_closes
               /\ survive_frees' = IF teardown THEN survive_frees + 1 ELSE survive_frees
               /\ UNCHANGED survive_crashed
       /\ UNCHANGED <<survive_already_initialized, survive_out>>
       /\ UNCHANGED notSurvive

SurviveNext ==
    \/ \E init_ok \in BOOLEAN, evs \in ConfigEventSeqs : survive_found(init_ok, evs)
    \/ \E d \in SurviveDevIds, outcome \in {"read", "reused", "crash"} :
          survive_device_destroy(d, outcome)

(***************************************************************************)
(* The IPC client instance and its device proxies.                         *)
(***************************************************************************)
MaxIpcDevices == 3      \* device proxies the service lists
MaxCreateSystem == 2    \* calls of create_system on the instance

IpcDevIds == 1..MaxIpcDevices

\* A pointer read from a slot past the devices of a set that is no device
\* of the set.
IpcStale == MaxIpcDevices + 1

\* The role table of the shared memory: an index by role, -1 for a role
\* that is not assigned.  The indices tried: not assigned, the first slot,
\* and a slot past every device the service can list.
IpcRoles == {"head", "eyes", "hand_tracking_left", "hand_tracking_right"}
RoleIndices == {-1, 0, MaxIpcDevices}
RolesUnset == [r \in IpcRoles |-> -1]

\* What create_system has written through its out parameters.
OutNone == [xsys |-> FALSE, xsysd |-> FALSE, xso |-> FALSE, xsysc |-> FALSE]

IpcIdle ==
    /\ ii_alloc = "none"
    /\ ii_xdevs = <<>>
    /\ ism_roles = RolesUnset
    /\ xsysds = <<>>
    /\ ipc_xdev_destroys = [d \in IpcDevIds |-> 0]
    /\ ipc_xdev_made = 0

\* ipc_instance_create: the service lists n devices; roles is the role table
\* of the shared memory the connection maps
ipc_instance_create(conn_ok, n, roles) ==
    /\ ii_alloc = "none"
    /\ IF ~conn_ok
       THEN /\ ii_alloc' = "freed"
            /\ UNCHANGED <<ii_xdevs, ism_roles, ipc_xdev_made>>
       ELSE /\ ii_alloc' = "alive"
            /\ ii_xdevs' = [i \in 1..n |-> i]
            /\ ipc_xdev_made' = n
            /\ ism_roles' = roles
    /\ UNCHANGED <<xsysds, ipc_xdev_destroys>>
    /\ UNCHANGED notIpc

\* The destroy of a device set: every device it holds is destroyed.
xrt_system_devices_destroy(destroys, xdevs) ==
    [d \in IpcDevIds |->
        destroys[d] + Cardinality({i \in DOMAIN xdevs : xdevs[i] = d})]

\* SET_ROLE: the device at the index of the role, no device for a negative
\* index.  The index is not compared with the number of devices: past them
\* the slot read holds past_end, whatever the set was allocated with.
SET_ROLE(xdevs, index, past_end) ==
    IF index >= 0
    THEN IF index < Len(xdevs) THEN xdevs[index + 1] ELSE past_end
    ELSE 0

\* create_system going for the system compositor without looking at the head
create_system_xret_no_head_test(want_xsysc, head, xsysc_ok) ==
    IF ~want_xsysc THEN "XRT_SUCCESS"
    ELSE IF ~xsysc_ok THEN "xsysc_error"
    ELSE "XRT_SUCCESS"

\* What create_system returns: with a system compositor asked for, a head is
\* needed and the compositor has to be created ("xsysc_error": whatever
\* create_system_compositor failed with).
create_system_xret(want_xsysc, head, xsysc_ok) ==
    IF ~want_xsysc THEN "XRT_SUCCESS"
    ELSE IF head = 0 THEN "XRT_ERROR_IPC_FAILURE"
    ELSE IF ~xsysc_ok THEN "xsysc_error"
    ELSE "XRT_SUCCESS"


\* ipc_client_instance_create_system: want_xsysc is out_xsysc != NULL,
\* xsysc_ok whether the system compositor can be created, past_end what a
\* slot past the devices of the new set holds
ipc_client_instance_create_system(want_xsysc, xsysc_ok, past_end) ==
    LET xdevs == ii_xdevs
        static_roles == [r \in IpcRoles |-> SET_ROLE(xdevs, ism_roles[r], past_end)]
        xret == create_system_xret(want_xsysc, static_roles.head, xsysc_ok)
        call == [xdevs |-> xdevs, want_xsysc |-> want_xsysc, roles |-> ism_roles,
                 static_roles |-> static_roles, xret |-> xret]
    IN /\ ii_alloc = "alive"
       /\ Len(xsysds) < MaxCreateSystem
       /\ ii_xdevs' = <<>>
       /\ IF xret = "XRT_SUCCESS"
          THEN /\ xsysds' = Append(xsysds, call @@
                     [state |-> "live",
                      out |-> [xsys |-> TRUE, xsysd |-> TRUE, xso |-> TRUE,
                               xsysc |-> want_xsysc]])
               /\ UNCHANGED ipc_xdev_destroys
          ELSE /\ xsysds' = Append(xsysds, call @@
                     [state |-> "destroyed", out |-> OutNone])
               /\ ipc_xdev_destroys' = xrt_system_devices_destroy(ipc_xdev_destroys, xdevs)
       /\ UNCHANGED <<ii_alloc, ism_roles, ipc_xdev_made>>
       /\ UNCHANGED notIpc

\* The caller destroys a device set create_system gave it.
ipc_caller_destroys_xsysd(k) ==
    /\ k \in DOMAIN xsysds
    /\ xsysds[k].state = "live"
    /\ xsysds' = [xsysds EXCEPT ![k].state = "destroyed"]
    /\ ipc_xdev_destroys' = xrt_system_devices_destroy(ipc_xdev_destroys, xsysds[k].xdevs)
    /\ UNCHANGED <<ii_alloc, ii_xdevs, ism_roles, ipc_xdev_made>>
    /\ UNCHANGED notIpc

\* ipc_client_instance_destroy
ipc_client_instance_destroy ==
    /\ ii_alloc = "alive"
    /\ ii_alloc' = "freed"
    /\ UNCHANGED <<ii_xdevs, ism_roles, xsysds, ipc_xdev_destroys, ipc_xdev_made>>
    /\ UNCHANGED notIpc

IpcNext ==
    \/ \E conn_ok \in BOOLEAN, n \in 0..MaxIpcDevices, roles \in [IpcRoles -> RoleIndices] :
          ipc_instance_create(conn_ok, n, roles)
    \/ \E want_xsysc \in BOOLEAN, xsysc_ok \in BOOLEAN, past_end \in {0, IpcStale} :
          ipc_client_instance_create_system(want_xsysc, xsysc_ok, past_end)
    \/ \E k \in 1..MaxCreateSystem : ipc_caller_destroys_xsysd(k)
    \/ ipc_client_instance_destroy

(***************************************************************************)
(* The Vive HMD IMU decoder.  The sensor numbers its samples with 8 bits   *)
(* and sends the last three in every report, sample n in slot n % 3.       *)
(***************************************************************************)
MaxImuSamples == 8      \* samples the sensor sends in one run

ImuSamples == 0..(MaxImuSamples - 1)

uint8(x) == (x + 256) % 256

ViveIdle ==
    /\ imu_sequence = 0
    /\ imu_first_seq = 0
    /\ imu_newest = -1
    /\ imu_fused = [n \in ImuSamples |-> 0]

\* vive_device_create: the device is allocated zeroed
ViveInit ==
    /\ imu_sequence = 0
    /\ imu_first_seq \in 0..255
    /\ imu_newest = -1
    /\ imu_fused = [n \in ImuSamples |-> 0]

oldest_sequence_index(a, b, c) ==
    IF a = uint8(b + 2) THEN 1
    ELSE IF b = uint8(c + 2) THEN 2
    ELSE 0

\* The report whose newest sample is m: by slot, the index of the sample.
imu_report(m) == [k \in 0..2 |-> CHOOSE n \in (m - 2)..m : n % 3 = k]

\* update_imu on one slot: skip a sample that was seen, fuse another.
\* st = [sequence, fused]; last_seq is the sequence read at entry.
update_imu_sample(st, n, seq, last_seq) ==
    IF seq = last_seq \/ seq = uint8(last_seq - 1) \/ seq = uint8(last_seq - 2)
    THEN st
    ELSE [sequence |-> seq, fused |-> [st.fused EXCEPT ![n] = @ + 1]]

\* update_imu: the report whose newest sample is m arrives
update_imu(m) ==
    LET r == imu_report(m)
        seq(k) == uint8(imu_first_seq + r[k])
        last_seq == imu_sequence
        i == oldest_sequence_index(seq(0), seq(1), seq(2))
        s0 == [sequence |-> imu_sequence, fused |-> imu_fused]
        s1 == update_imu_sample(s0, r[i], seq(i), last_seq)
        s2 == update_imu_sample(s1, r[(i + 1) % 3], seq((i + 1) % 3), last_seq)
        s3 == update_imu_sample(s2, r[(i + 2) % 3], seq((i + 2) % 3), last_seq)
    IN /\ m \in ImuSamples
       /\ IF imu_newest = -1 THEN m = 2 ELSE m \in imu_newest..(imu_newest + 3)
       /\ imu_newest' = m
       /\ imu_sequence' = s3.sequence
       /\ imu_fused' = s3.fused
       /\ UNCHANGED imu_first_seq
       /\ UNCHANGED notVive

ViveNext == \E m \in ImuSamples : update_imu(m)

(***************************************************************************)
(* MatFrame: matrix views that share the memory of frames.                 *)
(***************************************************************************)
MaxFrames == 2          \* frames
MaxViews == 3           \* wraps in one run
MaxRefs == 2            \* references one owner, or one view's copies, hold

FrameIds == 1..MaxFrames

MatIdle ==
    /\ frames = [f \in FrameIds |-> [refs |-> 1, owner |-> 1, destroys |-> 0]]
    /\ views = <<>>

\* xrt_frame_reference(&dst, f) with dst NULL: one more reference on f
xrt_frame_reference_take(frs, f) == [frs EXCEPT ![f].refs = @ + 1]

\* xrt_frame_reference(&dst, NULL) with dst f: one reference less, and the
\* frame is destroyed with its last
xrt_frame_reference_drop(frs, f) ==
    [frs EXCEPT ![f].refs = @ - 1,
                ![f].destroys = IF frs[f].refs = 1 THEN @ + 1 ELSE @]

\* The frames after MatFrame::wrap of f
MatFrame_wrap(frs, f) == xrt_frame_reference_take(frs, f)

\* A deallocate that lets go of the view and not of the frame.
MatFrame_deallocate_view_only(frs, f) == frs

\* The frames after MatFrame::deallocate of a view whose userdata is f
MatFrame_deallocate(frs, f) == xrt_frame_reference_drop(frs, f)

\* wrap: the caller holds a reference on f
mat_wrap(f) ==
    /\ frames[f].owner > 0
    /\ Len(views) < MaxViews
    /\ frames' = MatFrame_wrap(frames, f)
    /\ views' = Append(views, [frame |-> f, refcount |-> 1])
    /\ UNCHANGED notMat

\* A copy of the view v is made: the matrix library counts it.
mat_copy(v) ==
    /\ v \in DOMAIN views
    /\ views[v].refcount > 0
    /\ views[v].refcount < MaxRefs
    /\ views' = [views EXCEPT ![v].refcount = @ + 1]
    /\ UNCHANGED frames
    /\ UNCHANGED notMat

\* A copy of the view v goes away; the library calls deallocate at zero.
mat_release(v) ==
    /\ v \in DOMAIN views
    /\ views[v].refcount > 0
    /\ views' = [views EXCEPT ![v].refcount = @ - 1]
    /\ frames' = IF views[v].refcount = 1
                 THEN MatFrame_deallocate(frames, views[v].frame)
                 ELSE frames
    /\ UNCHANGED notMat

\* An owner of the frame takes another reference.
frame_owner_ref(f) ==
    /\ frames[f].owner > 0
    /\ frames[f].owner < MaxRefs
    /\ frames' = [xrt_frame_reference_take(frames, f) EXCEPT ![f].owner = @ + 1]
    /\ UNCHANGED views
    /\ UNCHANGED notMat

\* An owner of the frame drops its reference.
frame_owner_unref(f) ==
    /\ frames[f].owner > 0
    /\ frames' = [xrt_frame_reference_drop(frames, f) EXCEPT ![f].owner = @ - 1]
    /\ UNCHANGED views
    /\ UNCHANGED notMat

MatNext ==
    \/ \E f \in FrameIds : mat_wrap(f)
    \/ \E v \in 1..MaxViews : mat_copy(v)
    \/ \E v \in 1..MaxViews : mat_release(v)
    \/ \E f \in FrameIds : frame_owner_ref(f)
    \/ \E f \in FrameIds : frame_owner_unref(f)

(***************************************************************************)
(* The WMR builder: wmr_open_system_impl.                                  *)
(***************************************************************************)
WmrDevs == {"head", "left", "right", "ht_left", "ht_right"}
WmrNoRoles == [head |-> "null", left |-> "null", right |-> "null",
               ht_left |-> "null", ht_right |-> "null"]

WmrIdle ==
    /\ wmr_prober = [holo |-> FALSE, companion |-> FALSE, left |-> FALSE, right |-> FALSE]
    /\ wmr_devs = [d \in WmrDevs |-> "none"]
    /\ wmr_xsysd = <<>>
    /\ wmr_ubrh = WmrNoRoles
    /\ wmr_ret = "none"
    /\ wmr_estimate = <<>>
    /\ wmr_calls = <<>>

WmrInit ==
    /\ wmr_prober \in [holo : BOOLEAN, companion : BOOLEAN, left : BOOLEAN,
                       right : BOOLEAN]
    /\ wmr_devs = [d \in WmrDevs |-> "none"]
    /\ wmr_xsysd = <<>>
    /\ wmr_ubrh = WmrNoRoles
    /\ wmr_ret = "none"
    /\ wmr_estimate = <<>>
    /\ wmr_calls = <<>>

\* What wmr_create_headset can give: the head, and any of the others.
HeadsetOutcomes ==
    [ok : BOOLEAN, left : BOOLEAN, right : BOOLEAN, ht_left : BOOLEAN,
     ht_right : BOOLEAN]

\* xrt_device_destroy(&xdev): nothing for NULL
xrt_device_destroy(devs, d) ==
    IF devs[d] = "alive" THEN [devs EXCEPT ![d] = "destroyed"] ELSE devs

\* The error label of wmr_open_system_impl
wmr_error(devs) ==
    xrt_device_destroy(xrt_device_destroy(xrt_device_destroy(devs, "head"), "left"),
                       "right")

\* The devices the success path lists, in the order it adds them.
wmr_xdevs(devs) ==
    LET Has(d) == devs[d] = "alive"
    IN SelectSeq(<<"head", "left", "right", "ht_left", "ht_right">>, Has)

\* The calls that read the entries of the prober's device list
WmrEntryUses == {"wmr_find_headset", "wmr_find_bt_controller_pair", "print_hmd",
                 "print_ctrl", "wmr_create_headset", "wmr_create_bt_controller"}

\* wmr_estimate_system: what it does with the list, in order
wmr_estimate_system_calls(lock_ok, debug) ==
    IF ~lock_ok THEN <<"lock_failed">>
    ELSE <<"lock", "wmr_find_headset", "wmr_find_bt_controller_pair">>
         \o (IF debug THEN <<"print_hmd", "print_ctrl", "print_ctrl">> ELSE <<>>)
         \o <<"unlock">>

\* wmr_estimate_system.  g2: the headset found is a Reverb G2; debug: the
\* log level prints what was found
wmr_estimate_system(lock_ok, g2, debug) ==
    LET found == wmr_prober.holo /\ wmr_prober.companion
    IN /\ wmr_ret = "none"
       /\ wmr_estimate = <<>>
       /\ wmr_calls' = wmr_estimate_system_calls(lock_ok, debug)
       /\ wmr_estimate' =
             IF ~lock_ok THEN <<"error">>
             ELSE <<[certain |-> [head |-> found, left |-> wmr_prober.left,
                                 right |-> wmr_prober.right],
                     maybe |-> [head |-> FALSE, left |-> found /\ g2,
                                right |-> found /\ g2]]>>
       /\ UNCHANGED <<wmr_prober, wmr_devs, wmr_xsysd, wmr_ubrh, wmr_ret>>
       /\ UNCHANGED notWmr

\* wmr_open_system_impl with the error label leaving the list locked
wmr_open_system_calls_locked_on_error(lock_ok, found, hs_ok, want_left, bt_left_ok, want_right, bt_right_ok, wild) ==
    IF ~lock_ok THEN <<"lock_failed">>
    ELSE LET search == <<"lock", "wmr_find_headset", "wmr_find_bt_controller_pair">>
             error == <<"xrt_device_destroy">>
         IN  IF ~found THEN search \o error
             ELSE IF ~hs_ok THEN search \o <<"wmr_create_headset">> \o error
             ELSE IF want_left /\ ~bt_left_ok
             THEN search \o <<"wmr_create_headset", "wmr_create_bt_controller">> \o error
             ELSE IF want_right /\ ~bt_right_ok
             THEN search \o <<"wmr_create_headset">>
                  \o (IF want_left THEN <<"wmr_create_bt_controller">> ELSE <<>>)
                  \o <<"wmr_create_bt_controller">> \o error
             ELSE search \o <<"wmr_create_headset">>
                  \o (IF want_left THEN <<"wmr_create_bt_controller">> ELSE <<>>)
                  \o (IF want_right THEN <<"wmr_create_bt_controller">> ELSE <<>>)
                  \o <<"unlock">>

\* wmr_open_system_impl: what it does with the list, in order.  The crash in
\* the error label comes before its unlock
wmr_open_system_calls(lock_ok, found, hs_ok, want_left, bt_left_ok, want_right, bt_right_ok, wild) ==
    IF ~lock_ok THEN <<"lock_failed">>
    ELSE LET search == <<"lock", "wmr_find_headset", "wmr_find_bt_controller_pair">>
             error == <<"xrt_device_destroy", "unlock">>
         IN  IF ~found
             THEN search \o (IF wild THEN <<"xrt_device_destroy">> ELSE error)
             ELSE IF ~hs_ok THEN search \o <<"wmr_create_headset">> \o error
             ELSE IF want_left /\ ~bt_left_ok
             THEN search \o <<"wmr_create_headset", "wmr_create_bt_controller">> \o error
             ELSE IF want_right /\ ~bt_right_ok
             THEN search \o <<"wmr_create_headset">>
                  \o (IF want_left THEN <<"wmr_create_bt_controller">> ELSE <<>>)
                  \o <<"wmr_create_bt_controller">> \o error
             ELSE search \o <<"wmr_create_headset">>
                  \o (IF want_left THEN <<"wmr_create_bt_controller">> ELSE <<>>)
                  \o (IF want_right THEN <<"wmr_create_bt_controller">> ELSE <<>>)
                  \o <<"unlock">>

\* wmr_open_system_impl.  hs is what wmr_create_headset gives, bt_left_ok and
\* bt_right_ok whether wmr_create_bt_controller succeeds, wild whether the
\* pointers the error label reads before they were initialised are not NULL.
wmr_open_system_impl(lock_ok, hs, bt_left_ok, bt_right_ok, wild) ==
    LET found == wmr_prober.holo /\ wmr_prober.companion
        d0 == [d \in WmrDevs |->
                  IF d = "head" \/ hs[d] THEN "alive" ELSE "none"]
        want_left == d0["left"] = "none" /\ wmr_prober.left
        d1 == IF want_left /\ bt_left_ok THEN [d0 EXCEPT !["left"] = "alive"] ELSE d0
        want_right == d1["right"] = "none" /\ wmr_prober.right
        d2 == IF want_right /\ bt_right_ok THEN [d1 EXCEPT !["right"] = "alive"] ELSE d1
        Role(d, fallback) == IF d2[d] = "alive" THEN d
                             ELSE IF d2[fallback] = "alive" THEN fallback ELSE "null"
    IN /\ wmr_ret = "none"
       /\ wmr_calls' = wmr_open_system_calls(lock_ok, found, hs.ok, want_left, bt_left_ok,
                                             want_right, bt_right_ok, wild)
       /\ UNCHANGED wmr_estimate
       /\ IF ~lock_ok
          THEN /\ wmr_ret' = "error"
               /\ UNCHANGED <<wmr_devs, wmr_xsysd, wmr_ubrh>>
          ELSE IF ~found
          THEN /\ wmr_ret' = IF wild THEN "crash" ELSE "error"
               /\ UNCHANGED <<wmr_devs, wmr_xsysd, wmr_ubrh>>
          ELSE IF ~hs.ok
          THEN /\ wmr_ret' = "error"
               /\ wmr_devs' = wmr_error(wmr_devs)
               /\ UNCHANGED <<wmr_xsysd, wmr_ubrh>>
          ELSE IF want_left /\ ~bt_left_ok
          THEN /\ wmr_ret' = "error"
               /\ wmr_devs' = wmr_error(d0)
               /\ UNCHANGED <<wmr_xsysd, wmr_ubrh>>
          ELSE IF want_right /\ ~bt_right_ok
          THEN /\ wmr_ret' = "error"
               /\ wmr_devs' = wmr_error(d1)
               /\ UNCHANGED <<wmr_xsysd, wmr_ubrh>>
          ELSE /\ wmr_ret' = "success"
               /\ wmr_devs' = d2
               /\ wmr_xsysd' = wmr_xsysd \o wmr_xdevs(d2)
               /\ wmr_ubrh' = [head |-> "head",
                               left |-> Role("left", "ht_left"),
                               right |-> Role("right", "ht_right"),
                               ht_left |-> Role("ht_left", "ht_left"),
                               ht_right |-> Role("ht_right", "ht_right")]
       /\ UNCHANGED wmr_prober
       /\ UNCHANGED notWmr

WmrNext ==
    \/ \E lock_ok \in BOOLEAN, g2 \in BOOLEAN, debug \in BOOLEAN :
           wmr_estimate_system(lock_ok, g2, debug)
    \/ \E lock_ok \in BOOLEAN, hs \in HeadsetOutcomes, bt_left_ok \in BOOLEAN,
          bt_right_ok \in BOOLEAN, wild \in BOOLEAN :
           wmr_open_system_impl(lock_ok, hs, bt_left_ok, bt_right_ok, wild)

(***************************************************************************)
(* The native-display target: comp_window_vk_display_init.                 *)
(***************************************************************************)
MaxDisplays == 3

\* VkDisplayKHR handles: display_props[i].display is i + 1; what lies past
\* the end of display_props is not the handle of any display.
VkGarbage == -1
display_props(count) == [i \in 0..(count - 1) |-> i + 1]

VkdIdle ==
    /\ vkd_instance = TRUE
    /\ vkd_attached = 0
    /\ vkd_settings = [vk_display |-> 0, display |-> -1]
    /\ vkd_displays = <<>>
    /\ vkd_ret = "none"
    /\ vkd_cts_display = <<>>
    /\ vkd_swap_ret = "none"

VkdInit ==
    /\ vkd_instance \in BOOLEAN
    /\ vkd_attached \in 0..MaxDisplays
    /\ vkd_settings \in [vk_display : 0..(MaxDisplays + 1), display : -1..1]
    /\ vkd_displays = <<>>
    /\ vkd_ret = "none"
    /\ vkd_cts_display = <<>>
    /\ vkd_swap_ret = "none"

\* append_vk_display_entry: the array after the call (empty when the
\* reallocation fails)
append_vk_display_entry(displays, disp, alloc_ok) ==
    IF alloc_ok THEN Append(displays, disp) ELSE <<>>

\* comp_window_vk_display_current_display: 0 for NULL, else the position
\* (from 1) in displays
comp_window_vk_display_current_display(displays, display) ==
    LET index == IF display = -1 THEN 0 ELSE display
    IN IF Len(displays) <= index THEN 0 ELSE index + 1

\* The range check of the init function
vk_display_out_of_range(vk_display, display_count) ==
    vk_display > display_count

\* comp_window_vk_display_init.  enum_ok: whether the enumeration succeeds;
\* alloc_ok: whether the reallocation succeeds; past_end_faults: whether
\* reading display_props one past its end faults (it gives VkGarbage if not).
comp_window_vk_display_init(enum_ok, alloc_ok, past_end_faults) ==
    LET display_count == vkd_attached
        props == display_props(display_count)
        vk_display == vkd_settings.vk_display
        in_props == vk_display \in DOMAIN props
        disp == IF in_props THEN props[vk_display] ELSE VkGarbage
        ds == append_vk_display_entry(vkd_displays, disp, alloc_ok)
    IN /\ vkd_ret = "none"
       /\ IF ~vkd_instance \/ ~enum_ok \/ display_count = 0
             \/ vk_display_out_of_range(vk_display, display_count)
          THEN /\ vkd_ret' = "false"
               /\ UNCHANGED vkd_displays
          ELSE IF ~in_props /\ past_end_faults
          THEN /\ vkd_ret' = "crash"
               /\ UNCHANGED vkd_displays
          ELSE /\ vkd_displays' = ds
               /\ vkd_ret' =
                     IF comp_window_vk_display_current_display(ds, vkd_settings.display) = 0
                     THEN "false" ELSE "true"
       /\ UNCHANGED <<vkd_instance, vkd_attached, vkd_settings, vkd_cts_display, vkd_swap_ret>>
       /\ UNCHANGED notVkd

\* comp_window_vk_display_init_swapchain, called on a target whose init
\* returned true.  surface_ok: whether comp_window_direct_create_surface
\* succeeds on the display
comp_window_vk_display_init_swapchain(surface_ok) ==
    LET d == comp_window_vk_display_current_display(vkd_displays, vkd_settings.display)
    IN /\ vkd_ret = "true"
       /\ vkd_swap_ret = "none"
       /\ IF d = 0
          THEN /\ vkd_swap_ret' = "false"
               /\ UNCHANGED vkd_cts_display
          ELSE /\ vkd_cts_display' = <<vkd_displays[d]>>
               /\ vkd_swap_ret' = IF surface_ok THEN "true" ELSE "false"
       /\ UNCHANGED <<vkd_instance, vkd_attached, vkd_settings, vkd_displays, vkd_ret>>
       /\ UNCHANGED notVkd

VkdNext ==
    \/ \E enum_ok \in BOOLEAN, alloc_ok \in BOOLEAN, past_end_faults \in BOOLEAN :
           comp_window_vk_display_init(enum_ok, alloc_ok, past_end_faults)
    \/ \E surface_ok \in BOOLEAN :
           comp_window_vk_display_init_swapchain(surface_ok)

(***************************************************************************)
(* The Vive controller: create, the read thread, destroy.                  *)
(***************************************************************************)
MaxVcReports == 4
MaxLateReads == 2

OthZero == [initialized |-> FALSE, running |-> FALSE, owner |-> "free"]

VcIdle ==
    /\ vc_d = "none"
    /\ vc_hid = "open"
    /\ vc_fusion_mutex = "none"
    /\ vc_lock = "none"
    /\ vc_oth = OthZero
    /\ vc_pc = "none"
    /\ vc_dpc = "idle"
    /\ vc_ret = "none"
    /\ vc_reports = 0
    /\ vc_late_reads = 0
    /\ vc_var_root = FALSE

\* os_thread_helper_init / start / lock / unlock / is_running_locked
os_thread_helper_init(h) == [h EXCEPT !.initialized = TRUE]
os_thread_helper_start(h) == [h EXCEPT !.running = TRUE]
os_thread_helper_lock(h, who) == [h EXCEPT !.owner = who]
os_thread_helper_unlock(h) == [h EXCEPT !.owner = "free"]
os_thread_helper_is_running_locked(h) == h.running

\* os_mutex_destroy
os_mutex_destroy(m) == IF m = "init" THEN "destroyed" ELSE m

\* The part of vive_controller_device_destroy after the thread is joined:
\* it gives the device memory, the two mutexes and the HID handle.
vive_controller_device_teardown ==
    [d |-> "freed", lock |-> os_mutex_destroy("init"),
     fusion_mutex |-> os_mutex_destroy("init"), hid |-> "closed"]

\* vive_controller_create; vive_controller_setup_ui, its last call when it
\* succeeds, makes d a root of the variable tracking.  The inputs say whether os_mutex_init of the
\* fusion mutex, the IMU range report, the config read and the thread start
\* succeed.
vive_controller_create(mutex_ok, range_ok, config_ok, start_ok) ==
    /\ vc_ret = "none"
    /\ IF ~mutex_ok
       THEN /\ vc_d' = "alive"
            /\ vc_ret' = "null"
            /\ UNCHANGED <<vc_hid, vc_fusion_mutex, vc_lock, vc_oth, vc_pc, vc_var_root>>
       ELSE IF ~range_ok \/ ~config_ok \/ ~start_ok
       THEN /\ vc_d' = vive_controller_device_teardown.d
            /\ vc_lock' = vive_controller_device_teardown.lock
            /\ vc_fusion_mutex' = vive_controller_device_teardown.fusion_mutex
            /\ vc_hid' = vive_controller_device_teardown.hid
            /\ vc_oth' = OthZero
            /\ vc_ret' = "null"
            /\ UNCHANGED <<vc_pc, vc_var_root>>
       ELSE /\ vc_d' = "alive"
            /\ vc_fusion_mutex' = "init"
            /\ vc_lock' = "init"
            /\ vc_oth' = os_thread_helper_start(os_thread_helper_init(vc_oth))
            /\ vc_pc' = "drain"
            /\ vc_ret' = "device"
            /\ vc_var_root' = TRUE
            /\ UNCHANGED vc_hid
    /\ UNCHANGED <<vc_dpc, vc_reports, vc_late_reads>>
    /\ UNCHANGED notVc

\* vive_controller_run_thread: the queue is emptied before the loop
vive_controller_run_thread_drain ==
    /\ vc_pc = "drain"
    /\ vc_pc' = "lock"
    /\ UNCHANGED <<vc_d, vc_hid, vc_fusion_mutex, vc_lock, vc_oth, vc_dpc, vc_ret, vc_var_root,
                   vc_reports, vc_late_reads>>
    /\ UNCHANGED notVc

\* os_thread_helper_lock, before the loop and at the end of its body
vive_controller_run_thread_lock ==
    /\ vc_pc = "lock"
    /\ vc_oth.owner = "free"
    /\ vc_oth' = os_thread_helper_lock(vc_oth, "thread")
    /\ vc_pc' = "check"
    /\ UNCHANGED <<vc_d, vc_hid, vc_fusion_mutex, vc_lock, vc_dpc, vc_ret, vc_var_root,
                   vc_reports, vc_late_reads>>
    /\ UNCHANGED notVc

\* The loop condition, with the blocking read made under the lock
run_thread_check_read_locked(h) ==
    IF os_thread_helper_is_running_locked(h)
    THEN [pc |-> "read", oth |-> h]
    ELSE [pc |-> "exited", oth |-> h]

\* The loop condition of a thread that never looks at the stop flag
run_thread_check_keep_swimming(h) ==
    [pc |-> "read", oth |-> os_thread_helper_unlock(h)]

\* The loop condition and what follows it: [pc, oth] after the check
run_thread_check(h) ==
    IF os_thread_helper_is_running_locked(h)
    THEN [pc |-> "read", oth |-> os_thread_helper_unlock(h)]
    ELSE [pc |-> "exited", oth |-> h]



vive_controller_run_thread_check ==
    /\ vc_pc = "check"
    /\ vc_pc' = run_thread_check(vc_oth).pc
    /\ vc_oth' = run_thread_check(vc_oth).oth
    /\ UNCHANGED <<vc_d, vc_hid, vc_fusion_mutex, vc_lock, vc_dpc, vc_ret, vc_var_root,
                   vc_reports, vc_late_reads>>
    /\ UNCHANGED notVc

\* vive_controller_device_update up to the return of os_hid_read, which
\* waits 1000 ms at most: ret is 0 (nothing came), -1 (error) or 1 (a report)
vive_controller_device_update_read(ret) ==
    /\ vc_pc = "read"
    /\ ret = 1 => vc_reports < MaxVcReports
    /\ ~vc_oth.running => vc_late_reads < MaxLateReads
    /\ vc_pc' = IF ret = 0 THEN "lock" ELSE IF ret < 0 THEN "exited" ELSE "decode"
    /\ vc_late_reads' = IF vc_oth.running THEN vc_late_reads ELSE vc_late_reads + 1
    /\ UNCHANGED <<vc_d, vc_hid, vc_fusion_mutex, vc_lock, vc_oth, vc_dpc, vc_ret, vc_var_root,
                   vc_reports>>
    /\ UNCHANGED notVc

\* vive_controller_device_update: the report is decoded under d->lock
vive_controller_device_update_decode ==
    /\ vc_pc = "decode"
    /\ vc_reports' = vc_reports + 1
    /\ vc_pc' = "lock"
    /\ UNCHANGED <<vc_d, vc_hid, vc_fusion_mutex, vc_lock, vc_oth, vc_dpc, vc_ret, vc_var_root,
                   vc_late_reads>>
    /\ UNCHANGED notVc

\* os_thread_helper_stop_and_wait, up to the join: under the helper lock the
\* running flag is cleared
os_thread_helper_stop(h) == [h EXCEPT !.running = FALSE]

\* vive_controller_device_destroy: the stop request of os_thread_helper_destroy
vive_controller_device_destroy_stop ==
    /\ vc_ret = "device"
    /\ vc_dpc = "idle"
    /\ vc_oth.owner = "free"
    /\ vc_dpc' = IF vc_oth.running THEN "join" ELSE "teardown"
    /\ vc_oth' = os_thread_helper_stop(vc_oth)
    /\ UNCHANGED <<vc_d, vc_hid, vc_fusion_mutex, vc_lock, vc_pc, vc_ret, vc_var_root,
                   vc_reports, vc_late_reads>>
    /\ UNCHANGED notVc

\* vive_controller_device_destroy: the join of os_thread_helper_destroy
vive_controller_device_destroy_join ==
    /\ vc_dpc = "join"
    /\ vc_pc = "exited"
    /\ vc_dpc' = "teardown"
    /\ UNCHANGED <<vc_d, vc_hid, vc_fusion_mutex, vc_lock, vc_oth, vc_pc, vc_ret, vc_var_root,
                   vc_reports, vc_late_reads>>
    /\ UNCHANGED notVc

\* vive_controller_device_destroy: everything after the thread is gone
vive_controller_device_destroy ==
    /\ vc_dpc = "teardown"
    /\ vc_d' = vive_controller_device_teardown.d
    /\ vc_lock' = vive_controller_device_teardown.lock
    /\ vc_fusion_mutex' = vive_controller_device_teardown.fusion_mutex
    /\ vc_hid' = vive_controller_device_teardown.hid
    /\ vc_oth' = [vc_oth EXCEPT !.initialized = FALSE]
    /\ vc_dpc' = "done"
    /\ UNCHANGED <<vc_pc, vc_ret, vc_var_root, vc_reports, vc_late_reads>>
    /\ UNCHANGED notVc

VcThreadStep ==
    \/ vive_controller_run_thread_drain
    \/ vive_controller_run_thread_lock
    \/ vive_controller_run_thread_check
    \/ \E ret \in {-1, 0, 1} : vive_controller_device_update_read(ret)
    \/ vive_controller_device_update_decode

VcDestroyStep ==
    \/ vive_controller_device_destroy_join
    \/ vive_controller_device_destroy

VcNext ==
    \/ \E mutex_ok \in BOOLEAN, range_ok \in BOOLEAN, config_ok \in BOOLEAN,
          start_ok \in BOOLEAN :
           vive_controller_create(mutex_ok, range_ok, config_ok, start_ok)
    \/ VcThreadStep
    \/ vive_controller_device_destroy_stop
    \/ VcDestroyStep

(***************************************************************************)
(* The Watchman message decoders.  Positions count from the first payload  *)
(* byte; end == len - 1 is the position after the last byte of the message.*)
(* buf is the parse cursor, top the position after the highest byte read.  *)
(***************************************************************************)
MaxMsgLen == 16
WATCHMAN_GEN1 == 1
WATCHMAN_GEN2 == 2

\* sizeof of the samples
sizeof_battery_sample == 1
sizeof_button_sample == 1
sizeof_trigger_sample == 1
sizeof_touch_sample == 4
sizeof_watchman_imu_sample == 13
sizeof_watchman_touch_force == 8

\* (b & m) == m for a single bit m
BitSet(b, m) == (b \div m) % 2 = 1

\* The flag bytes the second generation tells apart, and two others
FlagBytes == {0, 225, 232, 240, 255}

\* fl[k] is the byte at the k-th position the cursor rests on; tf whether the
\* byte read as type flag is TYPE_FLAG_TOUCH_FORCE.
Messages ==
    [gen : {WATCHMAN_GEN1}, fl : {<<b, 0, 0, 0>> : b \in 0..255}, tf : {FALSE},
     len : 0..MaxMsgLen]
    \cup
    [gen : {WATCHMAN_GEN2}, fl : [1..4 -> FlagBytes], tf : BOOLEAN,
     len : 0..MaxMsgLen]

WmNoOut == [buf |-> 0, top |-> 0, done |-> FALSE]

WmIdle ==
    /\ wm_msg = [gen |-> WATCHMAN_GEN1, fl |-> <<0, 0, 0, 0>>, tf |-> FALSE, len |-> 0]
    /\ wm_out = WmNoOut

WmInit ==
    /\ wm_msg \in Messages
    /\ wm_out = WmNoOut

\* *buf is read
WmPeek(s) == [s EXCEPT !.top = Max(@, s.buf + 1)]
\* a sample of n bytes at buf is handled and the cursor moved past it
WmTake(s, n) == [s EXCEPT !.buf = @ + n, !.top = Max(@, s.buf + n)]
\* buf++ after a flag byte
WmSkipFlag(s) == [s EXCEPT !.buf = @ + 1, !.k = @ + 1]

vive_controller_decode_watchmanv1(m) ==
    LET end == m.len - 1
        flag == m.fl[1]
        s0 == WmPeek([buf |-> 0, top |-> 0, k |-> 1])
        input == (flag \div 32) = 7 /\ s0.buf < end
        has_battery == ~BitSet(flag, 16) /\ BitSet(flag, 1)
        has_trigger == BitSet(flag, 16) /\ BitSet(flag, 4)
        has_trackpad == BitSet(flag, 16) /\ BitSet(flag, 2)
        has_buttons == BitSet(flag, 16) /\ BitSet(flag, 1)
        has_imu == BitSet(flag, 8)
        s1 == WmSkipFlag(s0)
        s2 == IF has_battery THEN WmTake(s1, sizeof_battery_sample) ELSE s1
        s3 == IF has_buttons THEN WmTake(s2, sizeof_button_sample) ELSE s2
        s4 == IF has_trigger THEN WmTake(s3, sizeof_trigger_sample) ELSE s3
        s5 == IF has_trackpad THEN WmTake(s4, 4) ELSE s4
        s6 == IF has_imu THEN WmTake(s5, sizeof_watchman_imu_sample) ELSE s5
        s == IF input THEN s6 ELSE s0
    IN [buf |-> s.buf, top |-> s.top, done |-> TRUE]

vive_controller_decode_watchmanv2(m) ==
    LET end == m.len - 1
        Cur(s) == m.fl[s.k]
        Block(s, byte, n) ==
            LET p == WmPeek(s)
            IN IF Cur(s) = byte /\ s.buf < end THEN WmTake(WmSkipFlag(p), n) ELSE p
        s0 == [buf |-> 0, top |-> 0, k |-> 1]
        s1 == Block(s0, 225, sizeof_battery_sample)
        s2 == Block(s1, 240, sizeof_watchman_touch_force)
        s3 == Block(s2, 232, sizeof_watchman_imu_sample)
        flag == Cur(s3)
        events == (flag \div 16) = 15 /\ s3.buf < end - 1
        has_touch_force == BitSet(flag, 8)
        has_trigger == BitSet(flag, 4)
        has_trackpad == BitSet(flag, 2)
        has_buttons == BitSet(flag, 1)
        e1 == WmSkipFlag(WmPeek(s3))
        e2 == IF has_buttons THEN WmTake(e1, sizeof_button_sample) ELSE e1
        e3 == IF has_trigger THEN WmTake(e2, sizeof_trigger_sample) ELSE e2
        e4 == IF has_trackpad THEN WmTake(e3, sizeof_touch_sample) ELSE e3
        e5 == IF has_touch_force
              THEN IF m.tf THEN WmTake(e4, sizeof_watchman_touch_force) ELSE WmPeek(e4)
              ELSE e4
        e6 == IF e5.buf < end /\ end - e5.buf >= sizeof_watchman_imu_sample
              THEN WmTake(e5, sizeof_watchman_imu_sample) ELSE e5
        s == IF events THEN e6 ELSE WmPeek(s3)
    IN [buf |-> s.buf, top |-> s.top, done |-> TRUE]

\* vive_controller_decode_message
vive_controller_decode_message ==
    /\ ~wm_out.done
    /\ wm_out' = IF wm_msg.gen = WATCHMAN_GEN1
                 THEN vive_controller_decode_watchmanv1(wm_msg)
                 ELSE vive_controller_decode_watchmanv2(wm_msg)
    /\ UNCHANGED wm_msg
    /\ UNCHANGED notWm

WmNext == vive_controller_decode_message

(***************************************************************************)
(* Survive event dispatch: survive_device_update_inputs, _process_event,   *)
(* get_device_by_object, pose_to_relation.                                 *)
(***************************************************************************)
MaxSevEvents == 3
MaxSevQueue == 2

\* The tracked objects; the HMD's, and those of two controllers
SevHmd == "hmd"
SevObjects == {SevHmd, "c1", "c2"}

\* What validation of a pose event's components says
AllValid == [rot |-> TRUE, pos |-> TRUE, lin |-> TRUE, ang |-> TRUE]
PoseValidities ==
    {AllValid, [AllValid EXCEPT !.rot = FALSE], [AllValid EXCEPT !.pos = FALSE],
     [AllValid EXCEPT !.lin = FALSE]}

SevEvents ==
    [type : {"button", "config"}, object : SevObjects, v : {AllValid}]
    \cup [type : {"pose"}, object : SevObjects, v : PoseValidities]

RelationFlags == {"ORIENTATION", "POSITION", "LINEAR_VELOCITY", "ANGULAR_VELOCITY"}

SevDevZero == [buttons |-> 0, poses |-> 0, flags |-> {}, last |-> AllValid]

SevIdle ==
    /\ sev_devs = {}
    /\ sev_queue = <<>>
    /\ sev_pushed = 0
    /\ sev_dev = [o \in SevObjects |-> SevDevZero]
    /\ sev_crashed = FALSE

\* After survive_found: any of the HMD and the controllers, one at least
SevInit ==
    /\ sev_devs \in (SUBSET SevObjects) \ {{}}
    /\ sev_queue = <<>>
    /\ sev_pushed = 0
    /\ sev_dev = [o \in SevObjects |-> SevDevZero]
    /\ sev_crashed = FALSE

\* pose_to_relation: the relation_flags after the call
pose_to_relation(v, relation_flags) ==
    IF v.rot
    THEN relation_flags \cup {"ORIENTATION"}
           \cup (IF v.pos THEN {"POSITION"} ELSE {})
           \cup (IF v.lin THEN {"LINEAR_VELOCITY"} ELSE {})
           \cup (IF v.ang THEN {"ANGULAR_VELOCITY"} ELSE {})
    ELSE relation_flags

\* _process_pose_event
process_pose_event(d, e) ==
    [d EXCEPT !.flags = pose_to_relation(e.v, d.flags), !.poses = @ + 1,
              !.last = e.v]

\* _process_button_event, _process_hmd_button_event
process_button_event(d, e) == [d EXCEPT !.buttons = @ + 1]

\* get_device_by_object: the object of the device found, "NULL" for none,
\* "crash" when the read through the NULL sys->hmd faults; when it does
\* not fault it gives no object of the system.
get_device_by_object(devs, object, fault) ==
    IF SevHmd \notin devs /\ fault THEN "crash"
    ELSE IF object \in devs THEN object
    ELSE "NULL"

\* _process_event(NULL, survive, event) on st = [dev, crashed]
process_event(st, devs, survive, e, fault) ==
    IF e.type = "config"
    THEN \* add_device(NULL, e) reads ss->ll
         [st EXCEPT !.crashed = TRUE]
    ELSE
    LET event_device == IF e.object = survive THEN survive
                        ELSE get_device_by_object(devs, e.object, fault)
    IN IF event_device = "crash" THEN [st EXCEPT !.crashed = TRUE]
       ELSE IF event_device = "NULL" THEN st
       ELSE IF e.type = "button"
       THEN [st EXCEPT !.dev[event_device] = process_button_event(@, e)]
       ELSE [st EXCEPT !.dev[event_device] = process_pose_event(@, e)]

\* The loop of survive_device_update_inputs on st = [dev, crashed, queue]
RECURSIVE update_inputs_loop(_, _, _, _)
update_inputs_loop(st, devs, survive, fault) ==
    IF st.queue = <<>> \/ st.crashed THEN st
    ELSE LET r == process_event([dev |-> st.dev, crashed |-> st.crashed], devs,
                                survive, Head(st.queue), fault)
         IN update_inputs_loop([dev |-> r.dev, crashed |-> r.crashed,
                                queue |-> Tail(st.queue)], devs, survive, fault)

survive_device_update_inputs(survive, fault) ==
    LET r == update_inputs_loop([dev |-> sev_dev, crashed |-> FALSE,
                                 queue |-> sev_queue], sev_devs, survive, fault)
    IN /\ ~sev_crashed
       /\ survive \in sev_devs
       /\ sev_queue # <<>>
       /\ sev_dev' = r.dev
       /\ sev_crashed' = r.crashed
       /\ sev_queue' = r.queue
       /\ UNCHANGED <<sev_devs, sev_pushed>>
       /\ UNCHANGED notSev

\* The context's thread queues an event
survive_simple_queue_event(e) ==
    /\ ~sev_crashed
    /\ sev_pushed < MaxSevEvents
    /\ Len(sev_queue) < MaxSevQueue
    /\ sev_queue' = Append(sev_queue, e)
    /\ sev_pushed' = sev_pushed + 1
    /\ UNCHANGED <<sev_devs, sev_dev, sev_crashed>>
    /\ UNCHANGED notSev

SevNext ==
    \/ \E e \in SevEvents : survive_simple_queue_event(e)
    \/ \E survive \in SevObjects, fault \in BOOLEAN :
           survive_device_update_inputs(survive, fault)

(***************************************************************************)
(* The shared memory helpers, as built for a Unix that is not Android.     *)
(* Memory is counted in pages, descriptors are small numbers.              *)
(***************************************************************************)
MaxPages == 5      \* pages of address space: 0 .. MaxPages - 1
MaxFd == 4         \* descriptors: 0 .. MaxFd
ShmSize == 2       \* the size every call is given, in pages

ShmPages == 0..(MaxPages - 1)
ShmNull == 0       \* NULL, the address of page 0
MAP_FAILED == -1   \* what mmap returns when it fails
XRT_SHMEM_HANDLE_INVALID == -1

ShmNoCall == [called |-> FALSE, handle |-> -1, map |-> 0, closed |-> {}, unmapped |-> {}]

ShmNoMap == [called |-> FALSE, handle |-> -1, ret |-> "none", map |-> 0]

ShmIdle ==
    /\ shm_handle = XRT_SHMEM_HANDLE_INVALID
    /\ shm_map = ShmNull
    /\ shm_fds = {}
    /\ shm_mapped = {}
    /\ shm_last = ShmNoCall
    /\ shm_remap = ShmNoMap

\* The caller holds a pair that was never created; the process has its
\* standard descriptors open and has mapped what it has mapped.
ShmInit ==
    /\ shm_handle = XRT_SHMEM_HANDLE_INVALID
    /\ shm_map = ShmNull
    /\ shm_fds = {0, 1, 2}
    /\ shm_mapped \in SUBSET ShmPages
    /\ shm_last = ShmNoCall
    /\ shm_remap = ShmNoMap

\* The pages of [addr, addr + size)
PageRange(addr, size) == {q \in ShmPages : addr <= q /\ q < addr + size}

\* munmap: the pages it takes out of the mappings of the process.  It fails
\* on an address that is no page address and then unmaps nothing; pages of
\* the range that are not mapped are passed over.
munmap(mapped, addr, size) ==
    IF addr \in ShmPages THEN mapped \ PageRange(addr, size) ELSE mapped

\* mmap(NULL, size, ...): a page above page 0 from which size pages are
\* free, MAP_FAILED when the kernel refuses or there is none
FreeStarts(mapped) ==
    {a \in ShmPages : /\ a > 0
                      /\ a + ShmSize <= MaxPages
                      /\ PageRange(a, ShmSize) \cap mapped = {}}

\* shm_open: the lowest descriptor that is free, -1 when there is none
LowestFreeFd(fds) ==
    IF (0..MaxFd) \ fds = {} THEN -1
    ELSE CHOOSE f \in (0..MaxFd) \ fds : \A g \in (0..MaxFd) \ fds : f <= g

\* ipc_shmem_map: [ret, map, mapped] after mmap returned ptr; only a NULL
\* ptr is taken for a failure
ipc_shmem_map(mapped, ptr, old_map) ==
    IF ptr = ShmNull
    THEN [ret |-> "XRT_ERROR_IPC_FAILURE", map |-> old_map, mapped |-> mapped]
    ELSE [ret |-> "XRT_SUCCESS", map |-> ptr,
          mapped |-> IF ptr = MAP_FAILED THEN mapped
                     ELSE mapped \cup PageRange(ptr, ShmSize)]

\* ipc_shmem_create into the caller's pair
ipc_shmem_create(open_ok, ftruncate_ok, ptr) ==
    LET fd == IF open_ok THEN LowestFreeFd(shm_fds) ELSE -1
        m == ipc_shmem_map(shm_mapped, ptr, shm_map)
    IN /\ shm_handle = XRT_SHMEM_HANDLE_INVALID
       /\ ptr \in FreeStarts(shm_mapped) \cup {MAP_FAILED}
       /\ IF fd < 0 \/ ~ftruncate_ok
          THEN UNCHANGED <<shm_handle, shm_map, shm_fds, shm_mapped>>
          ELSE IF m.ret # "XRT_SUCCESS"
          THEN UNCHANGED <<shm_handle, shm_map, shm_fds, shm_mapped>>
          ELSE /\ shm_handle' = fd
               /\ shm_fds' = shm_fds \cup {fd}
               /\ shm_map' = m.map
               /\ shm_mapped' = m.mapped
       /\ UNCHANGED <<shm_last, shm_remap>>
       /\ UNCHANGED notShm

\* ipc_shmem_unmap of the caller's pointer: map_ptr, the address of the
\* pointer, is not NULL; the pointer it holds is not looked at
ipc_shmem_unmap ==
    /\ shm_mapped' = munmap(shm_mapped, shm_map, ShmSize)
    /\ shm_map' = ShmNull
    /\ UNCHANGED <<shm_handle, shm_fds, shm_last, shm_remap>>
    /\ UNCHANGED notShm

\* ipc_shmem_destroy of the caller's pair
ipc_shmem_destroy ==
    LET mapped == munmap(shm_mapped, shm_map, ShmSize)
        closed == IF shm_handle < 0 THEN {} ELSE {shm_handle}
    IN /\ shm_mapped' = mapped
       /\ shm_map' = ShmNull
       /\ shm_fds' = shm_fds \ closed
       /\ shm_handle' = XRT_SHMEM_HANDLE_INVALID
       /\ shm_last' = [called |-> TRUE, handle |-> shm_handle, map |-> shm_map,
                       closed |-> closed, unmapped |-> shm_mapped \ mapped]
       /\ UNCHANGED shm_remap
       /\ UNCHANGED notShm

\* The caller maps its handle with ipc_shmem_map, into its pointer.  mmap
\* on a descriptor that is not open fails; ptr is what it returns.
ipc_shmem_map_handle(ptr) ==
    LET m == ipc_shmem_map(shm_mapped, ptr, shm_map)
    IN /\ ptr \in (IF shm_handle \in shm_fds THEN FreeStarts(shm_mapped) ELSE {})
                    \cup {MAP_FAILED}
       /\ shm_map' = m.map
       /\ shm_mapped' = m.mapped
       /\ shm_remap' = [called |-> TRUE, handle |-> shm_handle, ret |-> m.ret,
                        map |-> m.map]
       /\ UNCHANGED <<shm_handle, shm_fds, shm_last>>
       /\ UNCHANGED notShm

ShmNext ==
    \/ \E open_ok \in BOOLEAN, ftruncate_ok \in BOOLEAN, ptr \in ShmPages \cup {MAP_FAILED} :
          ipc_shmem_create(open_ok, ftruncate_ok, ptr)
    \/ ipc_shmem_unmap
    \/ ipc_shmem_destroy
    \/ \E ptr \in ShmPages \cup {MAP_FAILED} : ipc_shmem_map_handle(ptr)

(***************************************************************************)
(* Creation and destruction of the SLAM adapter.                           *)
(***************************************************************************)
MaxVersion == 2    \* version numbers: 1 .. MaxVersion

Versions == [major : 1..MaxVersion, minor : 1..MaxVersion, patch : 1..MaxVersion]

\* What a call of t_slam_create depends on: the version of the engine linked
\* (IMPLEMENTATION_VERSION_*), the version of the header the adapter was
\* compiled against (HEADER_VERSION_*), config->slam_config and
\* config->slam_calib being set, and an OpenVR ground truth tracker being
\* asked for and created.
SlamCreateConfigs ==
    [implementation : Versions, header : Versions, config_file : BOOLEAN,
     some_calib : BOOLEAN, ovr_tracker : BOOLEAN]

SlcNoConfig ==
    [implementation |-> [major |-> 0, minor |-> 0, patch |-> 0],
     header |-> [major |-> 0, minor |-> 0, patch |-> 0],
     config_file |-> FALSE, some_calib |-> FALSE, ovr_tracker |-> FALSE]

\* The objects an adapter is made of: the TrackerSlam itself, the frame
\* wrapping helper, the engine, the ground truth trajectory, the five CSV
\* writers and the OpenVR tracker.
SlcWriters == {"slam_times_writer", "slam_features_writer", "slam_traj_writer",
               "pred_traj_writer", "filt_traj_writer"}
SlcObjects == {"t", "cv_wrapper", "slam", "gt_trajectory", "ovr_tracker"} \cup SlcWriters

SlcIdle ==
    /\ slc_cfg = SlcNoConfig
    /\ slc_ret = <<>>
    /\ slc_out = FALSE
    /\ slc_objs = [o \in SlcObjects |-> "none"]
    /\ slc_var_root = FALSE
    /\ slc_released = <<>>

\* t_slam_create with only the major version compared replaced by a
\* comparison of the whole version
t_slam_create_ret_whole_version(cfg) ==
    IF cfg.implementation # cfg.header THEN -1
    ELSE IF ~cfg.config_file /\ ~cfg.some_calib THEN -1
    ELSE 0

\* What t_slam_create returns: -1 for an engine of another major version and
\* for a call with neither a config file nor a calibration
t_slam_create_ret(cfg) ==
    IF cfg.implementation.major # cfg.header.major THEN -1
    ELSE IF ~cfg.config_file /\ ~cfg.some_calib THEN -1
    ELSE 0

\* t_slam_create: both tests come before anything is allocated; setup_ui
\* registers the root after the writers are made.
t_slam_create(cfg) ==
    /\ slc_ret = <<>>
    /\ slc_cfg' = cfg
    /\ slc_ret' = <<t_slam_create_ret(cfg)>>
    /\ IF t_slam_create_ret(cfg) # 0
       THEN UNCHANGED <<slc_out, slc_objs, slc_var_root>>
       ELSE /\ slc_objs' = [o \in SlcObjects |->
                               IF o = "ovr_tracker" /\ ~cfg.ovr_tracker
                               THEN "none" ELSE "alive"]
            /\ slc_var_root' = TRUE
            /\ slc_out' = TRUE
    /\ UNCHANGED slc_released
    /\ UNCHANGED notSlc

\* t_slam_node_destroy releasing the engine and the helper first
t_slam_node_destroy_order_engine_first(has_ovr_tracker) ==
    (IF has_ovr_tracker THEN <<"ovr_tracker">> ELSE <<>>) \o
    <<"oth", "slam", "cv_wrapper", "slam_times_writer", "slam_features_writer",
      "slam_traj_writer", "pred_traj_writer", "filt_traj_writer", "gt_trajectory",
      "var_root", "ui_sink", "gyro_ff", "accel_ff", "lock_ff", "filter_pos_ff",
      "filter_rot_ff", "t">>

\* What t_slam_node_destroy releases, in the order of its statements
t_slam_node_destroy_order(has_ovr_tracker) ==
    (IF has_ovr_tracker THEN <<"ovr_tracker">> ELSE <<>>) \o
    <<"oth", "gt_trajectory", "slam_times_writer", "slam_features_writer",
      "slam_traj_writer", "pred_traj_writer", "filt_traj_writer", "var_root",
      "ui_sink", "gyro_ff", "accel_ff", "lock_ff", "filter_pos_ff",
      "filter_rot_ff", "slam", "cv_wrapper", "t">>

\* t_slam_node_destroy
t_slam_node_destroy ==
    LET order == t_slam_node_destroy_order(slc_objs["ovr_tracker"] = "alive")
    IN /\ slc_ret = <<0>>
       /\ slc_objs["t"] = "alive"
       /\ slc_released' = order
       /\ slc_objs' = [o \in SlcObjects |->
                          IF \E i \in DOMAIN order : order[i] = o
                          THEN "freed" ELSE slc_objs[o]]
       /\ slc_var_root' = FALSE
       /\ UNCHANGED <<slc_cfg, slc_ret, slc_out>>
       /\ UNCHANGED notSlc

SlcNext ==
    \/ \E cfg \in SlamCreateConfigs : t_slam_create(cfg)
    \/ t_slam_node_destroy

(***************************************************************************)
(* The raw IMU ring buffers of the SLAM adapter and their mutex.  The IMU  *)
(* source pushes on its thread, the pose query predicts on another; each   *)
(* statement that touches a buffer is a step.                              *)
(***************************************************************************)
MaxFfPushes == 2    \* IMU samples accepted
MaxFfQueries == 2   \* predictions that get past the history tests

FfIdle ==
    /\ ff_lock = "free"
    /\ ff_imu_pc = "idle"
    /\ ff_query_pc = "idle"
    /\ ff_pred_type = SLAM_PRED_NONE
    /\ ff_pushes = 0
    /\ ff_queries = 0

\* os_mutex_lock / os_mutex_unlock
os_mutex_lock(m, thread) == thread
os_mutex_unlock(m) == "free"

\* The statements that touch t.gyro_ff or t.accel_ff, by thread
FfImuAccess == {"push_gyro", "push_accel"}
FfQueryAccess == {"imu_scan", "imu_integrate", "filter_gyro", "filter_accel"}

\* t_slam_receive_imu pushing to the buffers without taking the mutex
t_slam_receive_imu_pc_unlocked(pc) ==
    CASE pc = "idle" -> "push_gyro"
      [] pc = "lock" -> "push_gyro"
      [] pc = "push_gyro" -> "push_accel"
      [] pc = "push_accel" -> "idle"
      [] OTHER -> "idle"

\* t_slam_receive_imu from the sample accepted on: the statement after pc
t_slam_receive_imu_pc(pc) ==
    CASE pc = "idle" -> "lock"
      [] pc = "lock" -> "push_gyro"
      [] pc = "push_gyro" -> "push_accel"
      [] pc = "push_accel" -> "unlock"
      [] OTHER -> "idle"

\* predict_pose and predict_pose_from_imu: the statement after pc in a
\* prediction of type ptype that got past the history tests
predict_pose_pc(pc, ptype) ==
    CASE pc = "idle" -> "lock"
      [] pc = "lock" -> IF ptype = SLAM_PRED_IP_IO_IA_IL THEN "imu_scan"
                        ELSE IF ptype >= SLAM_PRED_SP_SO_IA_SL THEN "filter_gyro"
                        ELSE "unlock"
      [] pc = "imu_scan" -> "imu_integrate"
      [] pc = "imu_integrate" -> "unlock"
      [] pc = "filter_gyro" -> IF ptype >= SLAM_PRED_SP_SO_IA_IL THEN "filter_accel"
                               ELSE "unlock"
      [] pc = "filter_accel" -> "unlock"
      [] pc = "unlock" -> "predict"
      [] OTHER -> "idle"

\* The IMU thread: a sample arrives; fresh says its timestamp is newer than
\* the last one, an older sample is dropped before the buffers
ff_imu_receive(fresh) ==
    /\ ff_imu_pc = "idle"
    /\ ff_pushes < MaxFfPushes
    /\ ff_imu_pc' = IF fresh THEN t_slam_receive_imu_pc(ff_imu_pc) ELSE "idle"
    /\ ff_pushes' = IF fresh THEN ff_pushes + 1 ELSE ff_pushes
    /\ UNCHANGED <<ff_lock, ff_query_pc, ff_pred_type, ff_queries>>
    /\ UNCHANGED notFf

ff_imu_lock ==
    /\ ff_imu_pc = "lock"
    /\ ff_lock = "free"
    /\ ff_lock' = os_mutex_lock(ff_lock, "imu")
    /\ ff_imu_pc' = t_slam_receive_imu_pc(ff_imu_pc)
    /\ UNCHANGED <<ff_query_pc, ff_pred_type, ff_pushes, ff_queries>>
    /\ UNCHANGED notFf

ff_imu_push ==
    /\ ff_imu_pc \in FfImuAccess
    /\ ff_imu_pc' = t_slam_receive_imu_pc(ff_imu_pc)
    /\ UNCHANGED <<ff_lock, ff_query_pc, ff_pred_type, ff_pushes, ff_queries>>
    /\ UNCHANGED notFf

ff_imu_unlock ==
    /\ ff_imu_pc = "unlock"
    /\ ff_lock' = os_mutex_unlock(ff_lock)
    /\ ff_imu_pc' = t_slam_receive_imu_pc(ff_imu_pc)
    /\ UNCHANGED <<ff_query_pc, ff_pred_type, ff_pushes, ff_queries>>
    /\ UNCHANGED notFf

\* The query thread: predict_pose with t.pred_type = ptype; early says the
\* history is empty, or the type or the timestamp asks for the history only
ff_predict_pose(ptype, early) ==
    /\ ff_query_pc = "idle"
    /\ ff_queries < MaxFfQueries
    /\ ff_pred_type' = ptype
    /\ IF early \/ ptype = SLAM_PRED_NONE \/ ptype = SLAM_PRED_SP_SO_SA_SL
       THEN UNCHANGED <<ff_query_pc, ff_queries>>
       ELSE /\ ff_query_pc' = predict_pose_pc(ff_query_pc, ptype)
            /\ ff_queries' = ff_queries + 1
    /\ UNCHANGED <<ff_lock, ff_imu_pc, ff_pushes>>
    /\ UNCHANGED notFf

ff_query_lock ==
    /\ ff_query_pc = "lock"
    /\ ff_lock = "free"
    /\ ff_lock' = os_mutex_lock(ff_lock, "query")
    /\ ff_query_pc' = predict_pose_pc(ff_query_pc, ff_pred_type)
    /\ UNCHANGED <<ff_imu_pc, ff_pred_type, ff_pushes, ff_queries>>
    /\ UNCHANGED notFf

ff_query_read ==
    /\ ff_query_pc \in FfQueryAccess
    /\ ff_query_pc' = predict_pose_pc(ff_query_pc, ff_pred_type)
    /\ UNCHANGED <<ff_lock, ff_imu_pc, ff_pred_type, ff_pushes, ff_queries>>
    /\ UNCHANGED notFf

ff_query_unlock ==
    /\ ff_query_pc = "unlock"
    /\ ff_lock' = os_mutex_unlock(ff_lock)
    /\ ff_query_pc' = predict_pose_pc(ff_query_pc, ff_pred_type)
    /\ UNCHANGED <<ff_imu_pc, ff_pred_type, ff_pushes, ff_queries>>
    /\ UNCHANGED notFf

ff_query_predict ==
    /\ ff_query_pc = "predict"
    /\ ff_query_pc' = predict_pose_pc(ff_query_pc, ff_pred_type)
    /\ UNCHANGED <<ff_lock, ff_imu_pc, ff_pred_type, ff_pushes, ff_queries>>
    /\ UNCHANGED notFf

FfNext ==
    \/ \E fresh \in BOOLEAN : ff_imu_receive(fresh)
    \/ ff_imu_lock
    \/ ff_imu_push
    \/ ff_imu_unlock
    \/ \E ptype \in PredTypes, early \in BOOLEAN : ff_predict_pose(ptype, early)
    \/ ff_query_lock
    \/ ff_query_read
    \/ ff_query_unlock
    \/ ff_query_predict

(***************************************************************************)
(* CSVWriter::push called from several producers, statement by statement.  *)
(***************************************************************************)
MaxCsvPushes == 3   \* pushes started in one run

CsvProducers == {"slam", "query"}

CsvIdle ==
    /\ csv_enabled = FALSE
    /\ csv_created = FALSE
    /\ csv_mutex = "free"
    /\ csv_file = <<>>
    /\ csv_creates = 0
    /\ csv_pc = [p \in CsvProducers |-> "idle"]
    /\ csv_found = [p \in CsvProducers |-> <<>>]
    /\ csv_pushes = 0

\* The constructor: enabled is the argument e, created starts false
CsvInit ==
    /\ csv_enabled \in BOOLEAN
    /\ csv_created = FALSE
    /\ csv_mutex = "free"
    /\ csv_file = <<>>
    /\ csv_creates = 0
    /\ csv_pc = [p \in CsvProducers |-> "idle"]
    /\ csv_found = [p \in CsvProducers |-> <<>>]
    /\ csv_pushes = 0

\* CSVWriter::push without the unique_lock
CSVWriter_push_pc_no_mutex(pc, enabled, created) ==
    CASE pc = "idle" -> "test_enabled"
      [] pc = "test_enabled" -> IF ~enabled THEN "idle" ELSE "test_created"
      [] pc = "test_created" -> IF ~created THEN "set_created" ELSE "write"
      [] pc = "set_created" -> "create"
      [] pc = "create" -> "write"
      [] OTHER -> "idle"

\* CSVWriter::push: the statement after pc; the unique_lock is released
\* when push returns
CSVWriter_push_pc(pc, enabled, created) ==
    CASE pc = "idle" -> "lock"
      [] pc = "lock" -> "test_enabled"
      [] pc = "test_enabled" -> IF ~enabled THEN "unlock" ELSE "test_created"
      [] pc = "test_created" -> IF ~created THEN "set_created" ELSE "write"
      [] pc = "set_created" -> "create"
      [] pc = "create" -> "write"
      [] pc = "write" -> "unlock"
      [] OTHER -> "idle"

\* CSVWriter::create: a new output file that holds the header line
CSVWriter_create(p) == <<[kind |-> "header", by |-> p, found |-> <<>>]>>

CsvStep(p) == csv_pc' = [csv_pc EXCEPT ![p] =
                  CSVWriter_push_pc(csv_pc[p], csv_enabled, csv_created)]

\* The debug UI flips enabled, without the mutex
csv_ui_toggle ==
    /\ csv_enabled' = ~csv_enabled
    /\ UNCHANGED <<csv_created, csv_mutex, csv_file, csv_creates, csv_pc, csv_found,
                   csv_pushes>>
    /\ UNCHANGED notCsv

csv_push_call(p) ==
    /\ csv_pc[p] = "idle"
    /\ csv_pushes < MaxCsvPushes
    /\ csv_pushes' = csv_pushes + 1
    /\ csv_found' = [csv_found EXCEPT ![p] = <<>>]
    /\ CsvStep(p)
    /\ UNCHANGED <<csv_enabled, csv_created, csv_mutex, csv_file, csv_creates>>
    /\ UNCHANGED notCsv

csv_push_lock(p) ==
    /\ csv_pc[p] = "lock"
    /\ csv_mutex = "free"
    /\ csv_mutex' = p
    /\ CsvStep(p)
    /\ UNCHANGED <<csv_enabled, csv_created, csv_file, csv_creates, csv_found, csv_pushes>>
    /\ UNCHANGED notCsv

csv_push_test_enabled(p) ==
    /\ csv_pc[p] = "test_enabled"
    /\ csv_found' = [csv_found EXCEPT ![p] = <<csv_enabled>>]
    /\ CsvStep(p)
    /\ UNCHANGED <<csv_enabled, csv_created, csv_mutex, csv_file, csv_creates, csv_pushes>>
    /\ UNCHANGED notCsv

csv_push_test_created(p) ==
    /\ csv_pc[p] = "test_created"
    /\ CsvStep(p)
    /\ UNCHANGED <<csv_enabled, csv_created, csv_mutex, csv_file, csv_creates, csv_found,
                   csv_pushes>>
    /\ UNCHANGED notCsv

csv_push_set_created(p) ==
    /\ csv_pc[p] = "set_created"
    /\ csv_created' = TRUE
    /\ CsvStep(p)
    /\ UNCHANGED <<csv_enabled, csv_mutex, csv_file, csv_creates, csv_found, csv_pushes>>
    /\ UNCHANGED notCsv

csv_push_create(p) ==
    /\ csv_pc[p] = "create"
    /\ csv_file' = CSVWriter_create(p)
    /\ csv_creates' = csv_creates + 1
    /\ CsvStep(p)
    /\ UNCHANGED <<csv_enabled, csv_created, csv_mutex, csv_found, csv_pushes>>
    /\ UNCHANGED notCsv

csv_push_write(p) ==
    /\ csv_pc[p] = "write"
    /\ csv_file' = Append(csv_file, [kind |-> "row", by |-> p, found |-> csv_found[p]])
    /\ CsvStep(p)
    /\ UNCHANGED <<csv_enabled, csv_created, csv_mutex, csv_creates, csv_found, csv_pushes>>
    /\ UNCHANGED notCsv

csv_push_return(p) ==
    /\ csv_pc[p] = "unlock"
    /\ csv_mutex' = "free"
    /\ CsvStep(p)
    /\ UNCHANGED <<csv_enabled, csv_created, csv_file, csv_creates, csv_found, csv_pushes>>
    /\ UNCHANGED notCsv

CsvNext ==
    \/ csv_ui_toggle
    \/ \E p \in CsvProducers : csv_push_call(p)
    \/ \E p \in CsvProducers : csv_push_lock(p)
    \/ \E p \in CsvProducers : csv_push_test_enabled(p)
    \/ \E p \in CsvProducers : csv_push_test_created(p)
    \/ \E p \in CsvProducers : csv_push_set_created(p)
    \/ \E p \in CsvProducers : csv_push_create(p)
    \/ \E p \in CsvProducers : csv_push_write(p)
    \/ \E p \in CsvProducers : csv_push_return(p)

(***************************************************************************)
(* The simulated HMD: construction and pose query.                         *)
(***************************************************************************)
MaxSimTs == 3        \* timestamps of construction and of queries
MaxSimQueries == 3   \* pose queries in one run

SimMovements == {"SIMULATED_MOVEMENT_WOBBLE", "SIMULATED_MOVEMENT_ROTATE",
                 "SIMULATED_MOVEMENT_STATIONARY"}
SimInputNames == {"XRT_INPUT_GENERIC_HEAD_POSE", "XRT_INPUT_GENERIC_TRACKER_POSE"}

SimFlagBits == {"ORIENTATION_VALID", "POSITION_VALID", "ORIENTATION_TRACKED",
                "POSITION_TRACKED"}

\* What the caller's relation holds before the query writes it
SimOutBefore == [pose : {[kind |-> "caller", time |-> 0]}, relation_flags : {{}, SimFlagBits}]

SimIdle ==
    /\ sim_movement = "SIMULATED_MOVEMENT_WOBBLE"
    /\ sim_created_ns = 0
    /\ sim_pose = [kind |-> "identity", time |-> 0]
    /\ sim_name = <<>>
    /\ sim_out = [pose |-> [kind |-> "caller", time |-> 0], relation_flags |-> {}]
    /\ sim_queries = 0

\* simulated_hmd_create: the movement is the argument, the pose starts as
\* the identity
SimInit ==
    /\ sim_movement \in SimMovements
    /\ sim_created_ns \in 0..1
    /\ sim_pose = [kind |-> "identity", time |-> 0]
    /\ sim_name = <<>>
    /\ sim_out \in SimOutBefore
    /\ sim_queries = 0

\* The pose the switch on dh->movement computes, time_ns after construction
simulated_hmd_pose(movement, time_ns) ==
    CASE movement = "SIMULATED_MOVEMENT_ROTATE" -> [kind |-> "rotate", time |-> time_ns]
      [] movement = "SIMULATED_MOVEMENT_STATIONARY" -> [kind |-> "center", time |-> 0]
      [] OTHER -> [kind |-> "wobble", time |-> time_ns]

\* The bits simulated_hmd_get_tracked_pose puts in relation_flags
simulated_hmd_relation_flags == {"ORIENTATION_VALID", "POSITION_VALID", "ORIENTATION_TRACKED"}

simulated_hmd_get_tracked_pose(name, at_timestamp_ns, out_before) ==
    /\ sim_queries < MaxSimQueries
    /\ sim_queries' = sim_queries + 1
    /\ sim_name' = <<name>>
    /\ IF name # "XRT_INPUT_GENERIC_HEAD_POSE"
       THEN /\ sim_out' = out_before
            /\ UNCHANGED sim_pose
       ELSE /\ sim_pose' = simulated_hmd_pose(sim_movement, at_timestamp_ns - sim_created_ns)
            /\ sim_out' = [pose |-> sim_pose', relation_flags |-> simulated_hmd_relation_flags]
    /\ UNCHANGED <<sim_movement, sim_created_ns>>
    /\ UNCHANGED notSim

SimNext ==
    \E name \in SimInputNames, at \in 0..MaxSimTs, out_before \in SimOutBefore :
        simulated_hmd_get_tracked_pose(name, at, out_before)

(***************************************************************************)
(* choose_best_vk_mode_auto.  The code's indices start at 0, the positions *)
(* of a sequence at 1: mode_properties[i] is modes[i + 1].                 *)
(***************************************************************************)
MaxModes == 3       \* longest list of display modes
MaxExtent == 2      \* largest width and height of a visible region

VkRefreshRates == {60000, 90000}
VkDisplayModes ==
    [width : 1..MaxExtent, height : 1..MaxExtent, refreshRate : VkRefreshRates]

VkmIdle ==
    /\ vkm_modes = <<>>
    /\ vkm_best = <<>>

\* The display reports between one and MaxModes modes
VkmInit ==
    /\ vkm_modes \in UNION {[1..n -> VkDisplayModes] : n \in 1..MaxModes}
    /\ vkm_best = <<>>

\* int pixels = visibleRegion.width * visibleRegion.height
vk_mode_pixels(mode) == mode.width * mode.height

\* The test of the loop with the tie on the pixel count left undecided
vk_mode_is_better_pixels_only(current, best) ==
    vk_mode_pixels(current) > vk_mode_pixels(best)

\* The test of the loop: current replaces the best mode so far
vk_mode_is_better(current, best) ==
    \/ vk_mode_pixels(current) > vk_mode_pixels(best)
    \/ /\ vk_mode_pixels(current) = vk_mode_pixels(best)
       /\ current.refreshRate > best.refreshRate

\* for (int i = 1; i < mode_count; i++), from i on with best_index so far
RECURSIVE choose_best_vk_mode_loop(_, _, _)
choose_best_vk_mode_loop(modes, i, best_index) ==
    IF i >= Len(modes)
    THEN best_index
    ELSE choose_best_vk_mode_loop(modes, i + 1,
             IF vk_mode_is_better(modes[i + 1], modes[best_index + 1])
             THEN i ELSE best_index)

choose_best_vk_mode_auto(modes) ==
    IF Len(modes) = 1 THEN 0 ELSE choose_best_vk_mode_loop(modes, 1, 0)

vkm_choose ==
    /\ vkm_best = <<>>
    /\ vkm_best' = <<choose_best_vk_mode_auto(vkm_modes)>>
    /\ UNCHANGED vkm_modes
    /\ UNCHANGED notVkm

VkmNext == vkm_choose

(***************************************************************************)
(* vive_controller_device_set_output and vive_controller_haptic_pulse.     *)
(* Amplitudes are in hundredths, frequencies in Hz, durations in           *)
(* milliseconds; the code's float quotients are taken as exact.            *)
(***************************************************************************)
MaxHapCalls == 2     \* set_output calls in one run

XRT_MIN_HAPTIC_DURATION == -1
XRT_FREQUENCY_UNSPECIFIED == 0
DEFAULT_HAPTIC_FREQ == 150
MIN_HAPTIC_DURATION == 50
UINT16_MAX == 65535

HapOutputNames == {"XRT_OUTPUT_NAME_VIVE_HAPTIC", "XRT_OUTPUT_NAME_INDEX_HAPTIC",
                   "XRT_OUTPUT_NAME_SIMPLE_VIBRATION"}
HapAmplitudes == {0, 1, 2, 10, 100}
HapFrequencies == {XRT_FREQUENCY_UNSPECIFIED, 10, 100, 10000, 1000000}
HapDurations == {XRT_MIN_HAPTIC_DURATION, 1000}
HapValues == [amplitude : HapAmplitudes, frequency : HapFrequencies, duration : HapDurations]

HapIdle ==
    /\ hap_value = [amplitude |-> 0, frequency |-> 0, duration |-> 0]
    /\ hap_report = <<>>
    /\ hap_calls = 0

\* (uint16_t)x for a float x >= 0 with its fraction dropped: the value when
\* it fits; out of range the conversion is undefined, and the builds give
\* the low 16 bits or the largest value
to_uint16(x) == IF x <= UINT16_MAX THEN {x} ELSE {x % (UINT16_MAX + 1), UINT16_MAX}

\* float high_plus_low = 1000.f * 1000.f / frequency, in whole ticks
haptic_high_plus_low(frequency) == 1000000 \div frequency

\* amplitude * high_plus_low / 2., fraction dropped
haptic_pulse_low_raw(amplitude, frequency) == (amplitude * 1000000) \div (frequency * 200)

\* The pulse_low the report carries: never 0
haptic_pulse_low(low) == IF low = 0 THEN 1 ELSE low

\* high_plus_low - pulse_low, fraction dropped: between -1 and 0 it is 0
haptic_pulse_high_raw(frequency, pulse_low) ==
    IF haptic_high_plus_low(frequency) >= pulse_low
    THEN haptic_high_plus_low(frequency) - pulse_low
    ELSE 0

\* duration_seconds * frequency, fraction dropped
haptic_repeat_raw(duration_ms, frequency) == (duration_ms * frequency) \div 1000

vive_controller_device_set_output(name, value) ==
    /\ hap_calls < MaxHapCalls
    /\ hap_calls' = hap_calls + 1
    /\ hap_value' = value
    /\ IF name \notin {"XRT_OUTPUT_NAME_VIVE_HAPTIC", "XRT_OUTPUT_NAME_INDEX_HAPTIC"}
          \/ ~(value.amplitude > 1)
       THEN hap_report' = <<>>
       ELSE LET duration_ms == IF value.duration = XRT_MIN_HAPTIC_DURATION
                               THEN MIN_HAPTIC_DURATION ELSE value.duration
                frequency == IF value.frequency = XRT_FREQUENCY_UNSPECIFIED
                             THEN DEFAULT_HAPTIC_FREQ ELSE value.frequency
            IN  \E low \in to_uint16(haptic_pulse_low_raw(value.amplitude, frequency)) :
                \E high \in to_uint16(haptic_pulse_high_raw(frequency, haptic_pulse_low(low))) :
                \E repeat \in to_uint16(haptic_repeat_raw(duration_ms, frequency)) :
                    hap_report' = <<[frequency |-> frequency,
                                     pulse_high |-> high,
                                     pulse_low |-> haptic_pulse_low(low),
                                     repeat_count |-> repeat]>>
    /\ UNCHANGED notHap

HapNext ==
    \E name \in HapOutputNames, value \in HapValues :
        vive_controller_device_set_output(name, value)

(***************************************************************************)
(* weightedAvgBoxes and filterBoxesWeightedAvg.  Floats are fixed-point    *)
(* numbers: lengths in whole units, confidences in units of 1 / ConfOne,   *)
(* a quotient keeps its whole part.                                        *)
(***************************************************************************)
MaxDetections == 3   \* detections in one call
ConfOne == 10000     \* the confidence 1.0
NumKeypoints == 7

NmsBoxes == {[cx |-> 4, cy |-> 6, w |-> 4, h |-> 4],
             [cx |-> 4, cy |-> 6, w |-> 4, h |-> 2],
             [cx |-> 20, cy |-> 20, w |-> 4, h |-> 4]}
NmsKeypoints == {[i \in 1..NumKeypoints |-> [x |-> i, y |-> 2 * i]],
                 [i \in 1..NumKeypoints |-> [x |-> 3 + i, y |-> 9]]}
NmsConfidences == {ConfOne \div 2, ConfOne}
NMSPalm == [bbox : NmsBoxes, keypoints : NmsKeypoints, confidence : NmsConfidences]
NmsMinIous == {3, 5}

NmsIdle ==
    /\ nms_detections = <<>>
    /\ nms_min_iou = 0
    /\ nms_outs = <<>>

NmsInit ==
    /\ nms_detections \in UNION {[1..n -> NMSPalm] : n \in 1..MaxDetections}
    /\ nms_min_iou \in NmsMinIous
    /\ nms_outs = <<>>

\* boxIOU(a, b) > min_iou, min_iou in tenths: intersection over union of
\* the two axis-aligned boxes; edges and areas are kept doubled and
\* quadrupled so that halves stay whole
boxIOU_above(a, b, min_iou) ==
    LET iw == Max(0, Min(2 * a.cx + a.w, 2 * b.cx + b.w) - Max(2 * a.cx - a.w, 2 * b.cx - b.w))
        ih == Max(0, Min(2 * a.cy + a.h, 2 * b.cy + b.h) - Max(2 * a.cy - a.h, 2 * b.cy - b.h))
        inter == iw * ih
        union == 4 * a.w * a.h + 4 * b.w * b.h - inter
    IN  10 * inter > min_iou * union

\* (1 / (1 + e^(-0.2 n))) - 0.5 in thousandths, for n detections
sigmoid_addendum(n) ==
    CASE n = 1 -> 49
      [] n = 2 -> 98
      [] n = 3 -> 145
      [] n = 4 -> 189
      [] OTHER -> 231

\* The merged box: cx and cy are weighted means, w and h are both size, the
\* weighted mean of half the width plus half the height
weightedAvgBox(detections, weight) ==
    LET size == SumSeq([i \in 1..Len(detections) |->
                    (detections[i].bbox.w + detections[i].bbox.h)
                    * detections[i].confidence]) \div (2 * weight)
    IN  [cx |-> SumSeq([i \in 1..Len(detections) |->
                       detections[i].bbox.cx * detections[i].confidence]) \div weight,
         cy |-> SumSeq([i \in 1..Len(detections) |->
                       detections[i].bbox.cy * detections[i].confidence]) \div weight,
         w |-> size,
         h |-> size]

\* The merged confidence with no addendum for the number of detections
weightedAvgConfidence_bare(n, weight) == weight \div n

\* The merged confidence: the mean, plus the addendum times what the mean
\* lacks to 1
weightedAvgConfidence(n, weight) ==
    LET bare_confidence == weight \div n
        diff_bare_to_one == ConfOne - bare_confidence
    IN  bare_confidence + (sigmoid_addendum(n) * diff_bare_to_one) \div 1000

weightedAvgBoxes(detections) ==
    LET weight == SumSeq([i \in 1..Len(detections) |-> detections[i].confidence])
    IN  [bbox |-> weightedAvgBox(detections, weight),
         keypoints |-> [k \in 1..NumKeypoints |->
             [x |-> SumSeq([i \in 1..Len(detections) |->
                        detections[i].keypoints[k].x * detections[i].confidence]) \div weight,
              y |-> SumSeq([i \in 1..Len(detections) |->
                        detections[i].keypoints[k].y * detections[i].confidence]) \div weight]],
         confidence |-> weightedAvgConfidence(Len(detections), weight)]

\* The first group whose merged box the detection overlaps, 0 if none
NmsHome(outs, detection, min_iou) ==
    LET homes == {i \in 1..Len(outs) : boxIOU_above(outs[i].bbox, detection.bbox, min_iou)}
    IN  IF homes = {} THEN 0 ELSE CHOOSE i \in homes : \A j \in homes : i <= j

\* The loop of filterBoxesWeightedAvg from detection n on
RECURSIVE filterBoxesLoop(_, _, _, _, _)
filterBoxesLoop(detections, min_iou, n, overlaps, outs) ==
    IF n > Len(detections)
    THEN [overlaps |-> overlaps, outs |-> outs]
    ELSE LET home == NmsHome(outs, detections[n], min_iou)
         IN  IF home = 0
             THEN filterBoxesLoop(detections, min_iou, n + 1,
                      Append(overlaps, <<detections[n]>>), Append(outs, detections[n]))
             ELSE filterBoxesLoop(detections, min_iou, n + 1,
                      [overlaps EXCEPT ![home] = Append(@, detections[n])],
                      [outs EXCEPT ![home] = weightedAvgBoxes(Append(overlaps[home], detections[n]))])

filterBoxesWeightedAvg ==
    /\ nms_outs = <<>>
    /\ nms_outs' = <<filterBoxesLoop(nms_detections, nms_min_iou, 1, <<>>, <<>>)>>
    /\ UNCHANGED <<nms_detections, nms_min_iou>>
    /\ UNCHANGED notNms

NmsNext == filterBoxesWeightedAvg

(***************************************************************************)
(* YangCameraAndroid: initCamera and closeCamera.                          *)
(***************************************************************************)
MaxCamInits == 2     \* initCamera calls in one run
MaxCamCloses == 2    \* closeCamera calls in one run

\* What initCamera acquires, in its order
CamResources == {"manager", "device", "request", "container", "reader", "window",
                 "target", "output", "session", "repeating"}

\* The constructor sets every member pointer to NULL
CamIdle ==
    /\ cam_m_cameraManager = FALSE
    /\ cam_open = {}
    /\ cam_last = "new"
    /\ cam_inits = 0
    /\ cam_closes = 0

\* What initCamera leaves open: it tests no result, so a call that fails
\* leaves its resource out and those that need it fail too
initCamera_acquired(device_ok, request_ok, reader_ok, session_ok, repeating_ok) ==
    {"manager", "container"}
    \cup (IF device_ok THEN {"device"} ELSE {})
    \cup (IF device_ok /\ request_ok THEN {"request"} ELSE {})
    \cup (IF reader_ok THEN {"reader", "window", "target", "output"} ELSE {})
    \cup (IF device_ok /\ session_ok THEN {"session"} ELSE {})
    \cup (IF device_ok /\ request_ok /\ session_ok /\ repeating_ok
          THEN {"repeating"} ELSE {})

\* The manager is held in a local of initCamera; m_cameraManager is not
\* assigned
initCamera(device_ok, request_ok, reader_ok, session_ok, repeating_ok) ==
    /\ cam_inits < MaxCamInits
    /\ cam_inits' = cam_inits + 1
    /\ cam_open' = cam_open \cup
           initCamera_acquired(device_ok, request_ok, reader_ok, session_ok, repeating_ok)
    /\ cam_last' = "initCamera"
    /\ UNCHANGED <<cam_m_cameraManager, cam_closes>>
    /\ UNCHANGED notCam

\* What closeCamera releases when m_cameraManager is set
closeCamera_released ==
    {"repeating", "session", "container", "device", "manager", "reader", "request"}

closeCamera ==
    /\ cam_closes < MaxCamCloses
    /\ cam_closes' = cam_closes + 1
    /\ cam_last' = "closeCamera"
    /\ IF cam_m_cameraManager
       THEN /\ cam_open' = cam_open \ closeCamera_released
            /\ cam_m_cameraManager' = FALSE
       ELSE UNCHANGED <<cam_open, cam_m_cameraManager>>
    /\ UNCHANGED cam_inits
    /\ UNCHANGED notCam

CamNext ==
    \/ \E device_ok \in BOOLEAN, request_ok \in BOOLEAN, reader_ok \in BOOLEAN,
          session_ok \in BOOLEAN, repeating_ok \in BOOLEAN :
           initCamera(device_ok, request_ok, reader_ok, session_ok, repeating_ok)
    \/ closeCamera

(***************************************************************************)
(* flush_poses called by receive_frame on the frame thread and by          *)
(* t_slam_get_tracked_pose on the query thread.  Neither caller takes a    *)
(* lock; try_dequeue_pose and the push of one relation are one step each.  *)
(***************************************************************************)
MaxCfPoses == 2      \* poses the engine produces
MaxCfCalls == 3      \* flush_poses calls in one run

CfThreads == {"receive_frame", "t_slam_get_tracked_pose"}

CfIdle ==
    /\ cf_made = <<>>
    /\ cf_queue = <<>>
    /\ cf_rels = <<>>
    /\ cf_counter = 0
    /\ cf_pc = [th \in CfThreads |-> "idle"]
    /\ cf_np = [th \in CfThreads |-> <<>>]
    /\ cf_calls = 0

\* The engine puts a pose, newer than its last, in its output queue
cf_enqueue_pose(x) ==
    /\ Len(cf_made) < MaxCfPoses
    /\ cf_made' = Append(cf_made, [ts |-> Len(cf_made) + 1, p |-> x.p, o |-> x.o])
    /\ cf_queue' = Append(cf_queue, [ts |-> Len(cf_made) + 1, p |-> x.p, o |-> x.o])
    /\ UNCHANGED <<cf_rels, cf_counter, cf_pc, cf_np, cf_calls>>
    /\ UNCHANGED notCf

\* receive_frame of the last camera, or a pose query that is not cached,
\* enters flush_poses
cf_flush_poses_call(th) ==
    /\ cf_pc[th] = "idle"
    /\ cf_calls < MaxCfCalls
    /\ cf_calls' = cf_calls + 1
    /\ cf_pc' = [cf_pc EXCEPT ![th] = "try_dequeue_pose"]
    /\ UNCHANGED <<cf_made, cf_queue, cf_rels, cf_counter, cf_np>>
    /\ UNCHANGED notCf

\* t.slam->try_dequeue_pose(tracked_pose): the loop ends when it gets none
cf_try_dequeue_pose(th) ==
    /\ cf_pc[th] = "try_dequeue_pose"
    /\ IF cf_queue = <<>>
       THEN /\ cf_pc' = [cf_pc EXCEPT ![th] = "idle"]
            /\ UNCHANGED <<cf_queue, cf_np>>
       ELSE /\ cf_np' = [cf_np EXCEPT ![th] = <<Head(cf_queue)>>]
            /\ cf_queue' = Tail(cf_queue)
            /\ cf_pc' = [cf_pc EXCEPT ![th] = "push"]
    /\ UNCHANGED <<cf_made, cf_rels, cf_counter, cf_calls>>
    /\ UNCHANGED notCf

\* The body of the loop for the pose the thread holds
cf_flush_pose(th) ==
    /\ cf_pc[th] = "push"
    /\ LET r == flush_pose(cf_np[th][1], cf_rels, cf_counter, 1, [v |-> 0, w |-> 0])
       IN  /\ cf_rels' = r.rels
           /\ cf_counter' = r.counter
    /\ cf_np' = [cf_np EXCEPT ![th] = <<>>]
    /\ cf_pc' = [cf_pc EXCEPT ![th] = "try_dequeue_pose"]
    /\ UNCHANGED <<cf_made, cf_queue, cf_calls>>
    /\ UNCHANGED notCf

CfNext ==
    \/ \E x \in EnginePoses : cf_enqueue_pose(x)
    \/ \E th \in CfThreads : cf_flush_poses_call(th)
    \/ \E th \in CfThreads : cf_try_dequeue_pose(th)
    \/ \E th \in CfThreads : cf_flush_pose(th)

(***************************************************************************)
(* ipc_shmem_create, the Unix build, statement by statement in two         *)
(* processes.  Shared memory objects are numbered from 1.                  *)
(***************************************************************************)
MaxShcObjects == 3   \* shared memory objects created in one run

ShcProcesses == {"service", "client"}

ShcIdle ==
    /\ shc_name = 0
    /\ shc_objects = 0
    /\ shc_pc = [p \in ShcProcesses |-> "idle"]
    /\ shc_fd = [p \in ShcProcesses |-> 0]
    /\ shc_ret = [p \in ShcProcesses |-> "none"]

\* shm_open(MONADO_SHMEM_NAME, O_CREAT | O_RDWR): the object of that name
\* when there is one, a new object otherwise
shm_open(name, objects) == IF name # 0 THEN name ELSE objects + 1

shc_shm_open(p, open_ok) ==
    /\ shc_pc[p] = "idle"
    /\ shc_ret[p] = "none"
    /\ IF open_ok
       THEN /\ shc_fd' = [shc_fd EXCEPT ![p] = shm_open(shc_name, shc_objects)]
            /\ shc_name' = shm_open(shc_name, shc_objects)
            /\ shc_objects' = IF shc_name # 0 THEN shc_objects ELSE shc_objects + 1
            /\ shc_pc' = [shc_pc EXCEPT ![p] = "ftruncate"]
            /\ UNCHANGED shc_ret
       ELSE /\ shc_ret' = [shc_ret EXCEPT ![p] = "XRT_ERROR_IPC_FAILURE"]
            /\ UNCHANGED <<shc_fd, shc_name, shc_objects, shc_pc>>
    /\ UNCHANGED notShc

\* ftruncate(fd, size); close(fd) and return when it fails
shc_ftruncate(p, ftruncate_ok) ==
    /\ shc_pc[p] = "ftruncate"
    /\ IF ftruncate_ok
       THEN /\ shc_pc' = [shc_pc EXCEPT ![p] = "map"]
            /\ UNCHANGED <<shc_fd, shc_ret>>
       ELSE /\ shc_pc' = [shc_pc EXCEPT ![p] = "idle"]
            /\ shc_fd' = [shc_fd EXCEPT ![p] = 0]
            /\ shc_ret' = [shc_ret EXCEPT ![p] = "XRT_ERROR_IPC_FAILURE"]
    /\ UNCHANGED <<shc_name, shc_objects>>
    /\ UNCHANGED notShc

\* ipc_shmem_map(fd, size, out_map); close(fd) and return when it fails
shc_map(p, map_ok) ==
    /\ shc_pc[p] = "map"
    /\ IF map_ok
       THEN /\ shc_pc' = [shc_pc EXCEPT ![p] = "shm_unlink"]
            /\ UNCHANGED <<shc_fd, shc_ret>>
       ELSE /\ shc_pc' = [shc_pc EXCEPT ![p] = "idle"]
            /\ shc_fd' = [shc_fd EXCEPT ![p] = 0]
            /\ shc_ret' = [shc_ret EXCEPT ![p] = "XRT_ERROR_IPC_FAILURE"]
    /\ UNCHANGED <<shc_name, shc_objects>>
    /\ UNCHANGED notShc

\* shm_unlink(MONADO_SHMEM_NAME); *out_handle = fd; return XRT_SUCCESS
shc_shm_unlink(p) ==
    /\ shc_pc[p] = "shm_unlink"
    /\ shc_name' = 0
    /\ shc_pc' = [shc_pc EXCEPT ![p] = "idle"]
    /\ shc_ret' = [shc_ret EXCEPT ![p] = "XRT_SUCCESS"]
    /\ UNCHANGED <<shc_fd, shc_objects>>
    /\ UNCHANGED notShc

\* The caller closes the handle it got and may create again
shc_close(p) ==
    /\ shc_ret[p] # "none"
    /\ shc_objects < MaxShcObjects
    /\ shc_ret' = [shc_ret EXCEPT ![p] = "none"]
    /\ shc_fd' = [shc_fd EXCEPT ![p] = 0]
    /\ UNCHANGED <<shc_name, shc_objects, shc_pc>>
    /\ UNCHANGED notShc

ShcNext ==
    \/ \E p \in ShcProcesses, open_ok \in BOOLEAN : shc_shm_open(p, open_ok)
    \/ \E p \in ShcProcesses, ftruncate_ok \in BOOLEAN : shc_ftruncate(p, ftruncate_ok)
    \/ \E p \in ShcProcesses, map_ok \in BOOLEAN : shc_map(p, map_ok)
    \/ \E p \in ShcProcesses : shc_shm_unlink(p)
    \/ \E p \in ShcProcesses : shc_close(p)

(***************************************************************************)
(* The Vive HMD: vive_device_get_tracked_pose.                             *)
(***************************************************************************)
MaxVhpQueries == 3

XRT_POSE_IDENTITY == [y |-> 0, z |-> 0, r |-> 0]

\* The poses the SLAM tracker reports, the calibrated IMU-to-middle-of-eyes
\* poses, and the offsets set in the debug UI before the queries
VhpSlamPoses == {XRT_POSE_IDENTITY, [y |-> 1, z |-> 0, r |-> 1]}
VhpImuMePoses == {XRT_POSE_IDENTITY, [y |-> 0, z |-> 1, r |-> 0], [y |-> 0, z |-> 0, r |-> 1]}
VhpOffsets == {XRT_POSE_IDENTITY, [y |-> 1, z |-> 0, r |-> 0]}

VhpIdle ==
    /\ vhp_basalt = FALSE
    /\ vhp_slam_enabled = FALSE
    /\ vhp_slam_over_3dof = FALSE
    /\ vhp_imu2me = TRUE
    /\ vhp_P_imu_me = XRT_POSE_IDENTITY
    /\ vhp_offset = XRT_POSE_IDENTITY
    /\ vhp_pose = XRT_POSE_IDENTITY
    /\ vhp_out = <<>>

\* The device after vive_device_create and the calibration
VhpInit ==
    /\ vhp_basalt \in BOOLEAN
    /\ vhp_slam_enabled \in BOOLEAN
    /\ vhp_slam_over_3dof = vhp_slam_enabled
    /\ vhp_imu2me = TRUE
    /\ vhp_P_imu_me \in VhpImuMePoses
    /\ vhp_offset \in VhpOffsets
    /\ vhp_pose = XRT_POSE_IDENTITY
    /\ vhp_out = <<>>

\* math_quat_rotate_vec3 for r quarter turns about x, on (y, z)
math_quat_rotate_vec3(r, v) ==
    CASE r = 0 -> [y |-> v.y, z |-> v.z]
      [] r = 1 -> [y |-> 0 - v.z, z |-> v.y]
      [] r = 2 -> [y |-> 0 - v.y, z |-> 0 - v.z]
      [] r = 3 -> [y |-> v.z, z |-> 0 - v.y]

\* math_pose_transform: the pose taken through the transform
math_pose_transform(transform, pose) ==
    LET p == math_quat_rotate_vec3(transform.r, pose)
    IN [y |-> transform.y + p.y, z |-> transform.z + p.z, r |-> (transform.r + pose.r) % 4]

\* vive_device_correct_pose_from_basalt: q is a quarter turn backwards about x
vive_device_correct_pose_from_basalt(pose) ==
    LET p == math_quat_rotate_vec3(3, pose)
    IN [y |-> p.y, z |-> p.z, r |-> (3 + pose.r) % 4]

\* vive_device_get_slam_tracked_pose: d->pose after the call, which is also
\* the pose written to out_relation
vive_device_get_slam_tracked_pose(d_pose, pose_tracked, slam_pose, basalt, imu2me, P_imu_me) ==
    LET tracked == IF ~pose_tracked THEN d_pose
                   ELSE IF basalt THEN vive_device_correct_pose_from_basalt(slam_pose)
                   ELSE slam_pose
    IN IF imu2me THEN math_pose_transform(tracked, P_imu_me) ELSE tracked

\* vive_device_get_3dof_tracked_pose for the head pose: the orientation of the
\* relation history with the position of d->pose
vive_device_get_3dof_tracked_pose(d_pose, rot) ==
    [y |-> d_pose.y, z |-> d_pose.z, r |-> rot]

\* vive_device_get_tracked_pose.  pose_tracked, slam_pose: what the SLAM
\* tracker reports; rot: the orientation the 3DoF relation history gives
vive_device_get_tracked_pose(pose_tracked, slam_pose, rot) ==
    LET slam == vhp_slam_enabled /\ vhp_slam_over_3dof
        pose == IF slam
                THEN vive_device_get_slam_tracked_pose(vhp_pose, pose_tracked, slam_pose,
                                                       vhp_basalt, vhp_imu2me, vhp_P_imu_me)
                ELSE vive_device_get_3dof_tracked_pose(vhp_pose, rot)
    IN /\ Len(vhp_out) < MaxVhpQueries
       /\ vhp_pose' = pose
       /\ vhp_out' = Append(vhp_out, [pose |-> math_pose_transform(vhp_offset, pose),
                                      tracked |-> pose_tracked, slam |-> slam])
       /\ UNCHANGED <<vhp_basalt, vhp_slam_enabled, vhp_slam_over_3dof, vhp_imu2me,
                      vhp_P_imu_me, vhp_offset>>
       /\ UNCHANGED notVhp

\* vive_device_switch_hmd_tracker: the button of the debug UI, there when
\* SLAM is enabled
vive_device_switch_hmd_tracker ==
    /\ vhp_slam_enabled
    /\ vhp_slam_over_3dof' = ~vhp_slam_over_3dof
    /\ UNCHANGED <<vhp_basalt, vhp_slam_enabled, vhp_imu2me, vhp_P_imu_me, vhp_offset,
                   vhp_pose, vhp_out>>
    /\ UNCHANGED notVhp

VhpNext ==
    \/ \E pose_tracked \in BOOLEAN, slam_pose \in VhpSlamPoses, rot \in 0..1 :
          vive_device_get_tracked_pose(pose_tracked, slam_pose, rot)
    \/ vive_device_switch_hmd_tracker

(***************************************************************************)
(* Specifications of the other components                                  *)
(***************************************************************************)
ExtIdle == VkdIdle /\ VcIdle /\ WmIdle /\ SevIdle /\ ShmIdle /\ SlcIdle /\ FfIdle /\ CsvIdle /\ SimIdle /\ VkmIdle /\ HapIdle /\ NmsIdle /\ CamIdle /\ CfIdle /\ ShcIdle /\ VhpIdle

InitSurvive == SurviveIdle /\ SlamIdle /\ IpcIdle /\ ViveIdle /\ MatIdle /\ WmrIdle /\ ExtIdle
SpecSurvive == InitSurvive /\ [][SurviveNext]_vars

InitIpc == IpcIdle /\ SlamIdle /\ SurviveIdle /\ ViveIdle /\ MatIdle /\ WmrIdle /\ ExtIdle
SpecIpc == InitIpc /\ [][IpcNext]_vars

InitVive == ViveInit /\ SlamIdle /\ SurviveIdle /\ IpcIdle /\ MatIdle /\ WmrIdle /\ ExtIdle
SpecVive == InitVive /\ [][ViveNext]_vars

InitMat == MatIdle /\ SlamIdle /\ SurviveIdle /\ IpcIdle /\ ViveIdle /\ WmrIdle /\ ExtIdle
SpecMat == InitMat /\ [][MatNext]_vars

InitWmr == WmrInit /\ SlamIdle /\ SurviveIdle /\ IpcIdle /\ ViveIdle /\ MatIdle /\ ExtIdle
SpecWmr == InitWmr /\ [][WmrNext]_vars

OthersIdle == SurviveIdle /\ IpcIdle /\ ViveIdle /\ MatIdle /\ WmrIdle /\ ExtIdle
FirstIdle == SlamIdle /\ SurviveIdle /\ IpcIdle /\ ViveIdle /\ MatIdle /\ WmrIdle

InitVkd == VkdInit /\ FirstIdle /\ VcIdle /\ WmIdle /\ SevIdle /\ ShmIdle /\ SlcIdle /\ FfIdle /\ CsvIdle /\ SimIdle /\ VkmIdle /\ HapIdle /\ NmsIdle /\ CamIdle /\ CfIdle /\ ShcIdle /\ VhpIdle
SpecVkd == InitVkd /\ [][VkdNext]_vars

InitVc == VcIdle /\ FirstIdle /\ VkdIdle /\ WmIdle /\ SevIdle /\ ShmIdle /\ SlcIdle /\ FfIdle /\ CsvIdle /\ SimIdle /\ VkmIdle /\ HapIdle /\ NmsIdle /\ CamIdle /\ CfIdle /\ ShcIdle /\ VhpIdle
SpecVc == InitVc /\ [][VcNext]_vars
\* The scheduler runs the read thread and the destroying thread; the HID read
\* returns after its timeout.
SpecVcLive == SpecVc /\ WF_vars(VcThreadStep) /\ WF_vars(VcDestroyStep)

InitWm == WmInit /\ FirstIdle /\ VkdIdle /\ VcIdle /\ SevIdle /\ ShmIdle /\ SlcIdle /\ FfIdle /\ CsvIdle /\ SimIdle /\ VkmIdle /\ HapIdle /\ NmsIdle /\ CamIdle /\ CfIdle /\ ShcIdle /\ VhpIdle
SpecWm == InitWm /\ [][WmNext]_vars

InitSev == SevInit /\ FirstIdle /\ VkdIdle /\ VcIdle /\ WmIdle /\ ShmIdle /\ SlcIdle /\ FfIdle /\ CsvIdle /\ SimIdle /\ VkmIdle /\ HapIdle /\ NmsIdle /\ CamIdle /\ CfIdle /\ ShcIdle /\ VhpIdle
SpecSev == InitSev /\ [][SevNext]_vars

InitShm == ShmInit /\ FirstIdle /\ VkdIdle /\ VcIdle /\ WmIdle /\ SevIdle /\ SlcIdle /\ FfIdle /\ CsvIdle /\ SimIdle /\ VkmIdle /\ HapIdle /\ NmsIdle /\ CamIdle /\ CfIdle /\ ShcIdle /\ VhpIdle
SpecShm == InitShm /\ [][ShmNext]_vars

InitSlc == SlcIdle /\ FirstIdle /\ VkdIdle /\ VcIdle /\ WmIdle /\ SevIdle /\ ShmIdle /\ FfIdle /\ CsvIdle /\ SimIdle /\ VkmIdle /\ HapIdle /\ NmsIdle /\ CamIdle /\ CfIdle /\ ShcIdle /\ VhpIdle
SpecSlc == InitSlc /\ [][SlcNext]_vars

InitFf ==
    /\ FfIdle /\ FirstIdle
    /\ VkdIdle /\ VcIdle /\ WmIdle /\ SevIdle /\ ShmIdle /\ SlcIdle /\ CsvIdle /\ SimIdle /\ VkmIdle /\ HapIdle /\ NmsIdle /\ CamIdle /\ CfIdle /\ ShcIdle /\ VhpIdle
SpecFf == InitFf /\ [][FfNext]_vars

InitCsv ==
    /\ CsvInit /\ FirstIdle
    /\ VkdIdle /\ VcIdle /\ WmIdle /\ SevIdle /\ ShmIdle /\ SlcIdle /\ FfIdle /\ SimIdle /\ VkmIdle /\ HapIdle /\ NmsIdle /\ CamIdle /\ CfIdle /\ ShcIdle /\ VhpIdle
SpecCsv == InitCsv /\ [][CsvNext]_vars

InitSim ==
    /\ SimInit /\ FirstIdle
    /\ VkdIdle /\ VcIdle /\ WmIdle /\ SevIdle /\ ShmIdle /\ SlcIdle /\ FfIdle /\ CsvIdle /\ VkmIdle /\ HapIdle /\ NmsIdle /\ CamIdle /\ CfIdle /\ ShcIdle /\ VhpIdle
SpecSim == InitSim /\ [][SimNext]_vars

InitVkm ==
    /\ VkmInit /\ FirstIdle
    /\ VkdIdle /\ VcIdle /\ WmIdle /\ SevIdle /\ ShmIdle /\ SlcIdle /\ FfIdle /\ CsvIdle /\ SimIdle /\ HapIdle /\ NmsIdle /\ CamIdle /\ CfIdle /\ ShcIdle /\ VhpIdle
SpecVkm == InitVkm /\ [][VkmNext]_vars

InitHap ==
    /\ HapIdle /\ FirstIdle
    /\ VkdIdle /\ VcIdle /\ WmIdle /\ SevIdle /\ ShmIdle /\ SlcIdle /\ FfIdle /\ CsvIdle /\ SimIdle /\ VkmIdle /\ NmsIdle /\ CamIdle /\ CfIdle /\ ShcIdle /\ VhpIdle
SpecHap == InitHap /\ [][HapNext]_vars

InitNms ==
    /\ NmsInit /\ FirstIdle
    /\ VkdIdle /\ VcIdle /\ WmIdle /\ SevIdle /\ ShmIdle /\ SlcIdle /\ FfIdle /\ CsvIdle /\ SimIdle /\ VkmIdle /\ HapIdle /\ CamIdle /\ CfIdle /\ ShcIdle /\ VhpIdle
SpecNms == InitNms /\ [][NmsNext]_vars

InitCam ==
    /\ CamIdle /\ FirstIdle
    /\ VkdIdle /\ VcIdle /\ WmIdle /\ SevIdle /\ ShmIdle /\ SlcIdle /\ FfIdle /\ CsvIdle /\ SimIdle /\ VkmIdle /\ HapIdle /\ NmsIdle /\ CfIdle /\ ShcIdle /\ VhpIdle
SpecCam == InitCam /\ [][CamNext]_vars

InitCf ==
    /\ CfIdle /\ FirstIdle
    /\ VkdIdle /\ VcIdle /\ WmIdle /\ SevIdle /\ ShmIdle /\ SlcIdle /\ FfIdle /\ CsvIdle /\ SimIdle /\ VkmIdle /\ HapIdle /\ NmsIdle /\ CamIdle /\ ShcIdle /\ VhpIdle
SpecCf == InitCf /\ [][CfNext]_vars

InitShc ==
    /\ ShcIdle /\ FirstIdle
    /\ VkdIdle /\ VcIdle /\ WmIdle /\ SevIdle /\ ShmIdle /\ SlcIdle /\ FfIdle /\ CsvIdle /\ SimIdle /\ VkmIdle /\ HapIdle /\ NmsIdle /\ CamIdle /\ CfIdle /\ VhpIdle
SpecShc == InitShc /\ [][ShcNext]_vars

InitVhp ==
    /\ VhpInit /\ FirstIdle
    /\ VkdIdle /\ VcIdle /\ WmIdle /\ SevIdle /\ ShmIdle /\ SlcIdle /\ FfIdle /\ CsvIdle /\ SimIdle /\ VkmIdle /\ HapIdle /\ NmsIdle /\ CamIdle /\ CfIdle /\ ShcIdle
SpecVhp == InitVhp /\ [][VhpNext]_vars

(***************************************************************************)
(* Specifications of the SLAM adapter.  Each one drives the adapter with  *)
(* the calls one scenario makes.                                           *)
(***************************************************************************)
ImuVals == {0, 1}

WritersAre(b) ==
    writer_enabled = [slam_traj |-> b, pred_traj |-> b, filt_traj |-> b]

\* The sources push samples while the owner starts and tears down the node.
SinksNext ==
    \/ \E ts \in 0..MaxSinkTs : t_slam_receive_imu(ts, 0, 0)
    \/ \E c \in Cams, ts \in 0..MaxSinkTs, u \in UninitVels : receive_frame(c, ts, u)
    \/ ui_toggle_submit
    \/ t_slam_start
    \/ break_apart_ovr
    \/ break_apart_finalize
    \/ break_apart_stop
    \/ break_apart_join

InitSlamSinks ==
    OthersIdle /\ SlamInit /\ pred_type = SLAM_PRED_IP_IO_IA_IL /\ WritersAre(FALSE)
SpecSlamSinks == InitSlamSinks /\ [][SinksNext]_vars

\* The engine estimates poses; frames and pose queries flush them.
FlushNext ==
    \/ t_slam_start
    \/ \E ts \in Timestamps, x \in EnginePoses : slam_enqueue_pose(ts, x)
    \/ \E c \in Cams, u \in UninitVels : receive_frame(c, MaxTs, u)
    \/ \E u \in UninitVels : t_slam_get_tracked_pose(MaxTs, u)
    \/ \E n \in 1..2 : ui_set_dbg_pred_every(n)

InitSlamFlush ==
    /\ OthersIdle
    /\ SlamInit /\ submit = FALSE /\ ovr_tracker = "null" /\ WritersAre(TRUE)
    /\ pred_type = SLAM_PRED_IP_IO_IA_IL
SpecSlamFlush == InitSlamFlush /\ [][FlushNext]_vars

\* Pose queries with the ground-truth override and the filters in play.
QueryNext ==
    \/ t_slam_start
    \/ \E ts \in Timestamps : slam_enqueue_pose(ts, [p |-> 2, o |-> 1])
    \/ \E when_ns \in Timestamps, u \in UninitVels : t_slam_get_tracked_pose(when_ns, u)
    \/ \E p \in ImuVals : t_slam_gt_sink_push(0, p)
    \/ ui_toggle_override_tracking
    \/ ui_toggle_filter("use_exponential_smoothing_filter")

InitSlamQuery ==
    /\ OthersIdle
    /\ SlamInit /\ submit = FALSE /\ ovr_tracker = "null" /\ WritersAre(FALSE)
    /\ pred_type = SLAM_PRED_IP_IO_IA_IL
SpecSlamQuery == InitSlamQuery /\ [][QueryNext]_vars

\* Pose queries in every prediction mode, with IMU samples arriving.
PredictNext ==
    \/ t_slam_start
    \/ \E ts \in 0..MaxPredTs : slam_enqueue_pose(ts, [p |-> 2 * ts, o |-> 1])
    \/ \E ts \in 0..MaxPredTs : t_slam_receive_imu(ts, 0, 1)
    \/ \E when_ns \in 0..MaxPredTs, u \in UninitVels :
          t_slam_get_tracked_pose(when_ns, u)

InitSlamPredict ==
    /\ OthersIdle
    /\ SlamInit /\ submit = FALSE /\ ovr_tracker = "null" /\ WritersAre(FALSE)
SpecSlamPredict == InitSlamPredict /\ [][PredictNext]_vars

\* Pose queries in every prediction mode with the three filters switched
\* from the debug UI; the engine has one pose to give and the IMU one sample.
FilteredNext ==
    \/ t_slam_start
    \/ slam_enqueue_pose(1, [p |-> 2, o |-> 1])
    \/ t_slam_receive_imu(1, 0, 1)
    \/ \E when_ns \in 0..MaxPredTs, u \in UninitVels :
          t_slam_get_tracked_pose(when_ns, u)
    \/ \E which \in {"use_moving_average_filter", "use_exponential_smoothing_filter",
                     "use_one_euro_filter"} : ui_toggle_filter(which)

InitSlamFiltered ==
    /\ OthersIdle
    /\ SlamInit /\ submit = FALSE /\ ovr_tracker = "null" /\ WritersAre(FALSE)
SpecSlamFiltered == InitSlamFiltered /\ [][FilteredNext]_vars

(***************************************************************************)
(* Properties of the SLAM adapter                                          *)
(***************************************************************************)
SameStream(a, b) == a.kind = b.kind /\ a.cam = b.cam

\* C1: on the IMU stream and on each camera stream, a sample that is not
\* newer than the last accepted sample of its stream is dropped, so the
\* samples forwarded to the engine on one stream have strictly increasing
\* timestamps.
ForwardedTimestampsIncrease ==
    \A i, j \in 1..Len(slam_in) :
        (i < j /\ SameStream(slam_in[i], slam_in[j])) => slam_in[i].ts < slam_in[j].ts

\* C2: once break_apart has told the engine to finalize, no frame and no
\* IMU sample is pushed to the engine.
NoInputAfterFinalize == \A i \in 1..Len(slam_in) : ~slam_in[i].fin

\* C3: a pose query for the timestamp of the query before it returns the
\* relation that query returned, without flushing, predicting or filtering.
CachedQueryReturnsPreceding ==
    [][(n_queries > 0 /\ n_queries' = n_queries + 1 /\ query'.when = query.when)
          => /\ query'.out_relation = query.out_relation
             /\ UNCHANGED <<slam_queue, flushVars, filter, last_rel, last_ts>>]_vars

ImuAssistedTypes == {SLAM_PRED_SP_SO_IA_SL, SLAM_PRED_SP_SO_IA_IL, SLAM_PRED_IP_IO_IA_IL}

\* C4: for a query at or before the latest SLAM pose, every IMU-assisted
\* prediction mode returns what the history-only mode SP_SO_SA_SL returns.
ImuModesFallBackToHistory ==
    \A when_ns \in 0..MaxPredTs, m \in ImuAssistedTypes :
        (slam_rels # <<>> /\ when_ns <= slam_rels[Len(slam_rels)].ts)
            => predict_pose(m, slam_rels, gyro_ff, accel_ff, last_imu_ts, when_ns)
               = predict_pose(SLAM_PRED_SP_SO_SA_SL, slam_rels, gyro_ff, accel_ff,
                              last_imu_ts, when_ns)

\* An IMU-assisted query at a time before the latest of two SLAM poses, with
\* IMU samples in the fifos, has been answered from the history.
ImuModeQueriedBeforeLatestPose ==
    /\ pred_type \in ImuAssistedTypes
    /\ Len(slam_rels) >= 2
    /\ gyro_ff # <<>>
    /\ n_queries > 0
    /\ query.when = last_ts
    /\ last_ts > 0
    /\ last_ts < slam_rels[Len(slam_rels)].ts
    /\ query.out_relation.flags = "ALL"
    /\ query.out_relation = RelationHistory_get(slam_rels, query.when)

RelTimestamps(h) == [i \in 1..Len(h) |-> h[i].ts]

\* The timestamps of the poses of q that the debug counter c lets into the
\* history when it is pushed every e poses.
KeptTimestamps(q, c, e) ==
    LET Keeps(i) == (c + i - 1) % e = 0
        idx == SelectSeq([i \in 1..Len(q) |-> i], Keeps)
    IN [k \in 1..Len(idx) |-> q[idx[k]].ts]

\* C5: a flush dequeues every pose of the engine's queue and handles each
\* once, in order: each is written to the tracked trajectory and, unless
\* the debug counter skips it, pushed to the history.
FlushDrainsEveryPoseOnce ==
    [][Len(slam_queue') < Len(slam_queue)
          => /\ slam_queue' = <<>>
             /\ slam_traj' = slam_traj \o slam_queue
             /\ RelTimestamps(slam_rels')
                = RelTimestamps(slam_rels)
                  \o KeptTimestamps(slam_queue, dbg_pred_counter, dbg_pred_every)]_vars

\* One pose query has flushed three poses, and the counter skipped one.
QueryFlushedSeveralPoses ==
    /\ Len(slam_traj) = 3
    /\ Len(slam_rels) = 2
    /\ slam_queue = <<>>
    /\ n_queries = 1
    /\ last_cam_ts[cam_count - 1] = INT64_MIN

(***************************************************************************)
(* Properties of the other components                                      *)
(***************************************************************************)
\* C6: the Survive context is closed and the system freed only when the HMD
\* and every controller created from it have been destroyed, and then
\* once: no device that is alive is left with a closed context or a freed
\* system.
ContextOutlivesEveryDevice ==
    /\ survive_closes <= 1
    /\ survive_frees <= 1
    /\ (ss_alloc = "freed" \/ ss.ctx = "closed")
          => \A d \in SurviveDevIds : survive_devs[d].state # "alive"

\* The devices the IPC instance made are out of reach: the instance is gone
\* and so is every device set it gave out.
IpcLifetimeOver ==
    /\ ii_alloc = "freed"
    /\ \A k \in DOMAIN xsysds : xsysds[k].state = "destroyed"

\* C7: every device proxy made with the IPC client instance is destroyed
\* once over the lifetime of the instance: never twice, and none is left
\* when the instance and the device sets are gone.
ProxiesDestroyedExactlyOnce ==
    /\ \A d \in IpcDevIds : ipc_xdev_destroys[d] <= 1
    /\ IpcLifetimeOver => \A d \in 1..ipc_xdev_made : ipc_xdev_destroys[d] = 1

\* C8: every sample the Vive HMD has sent, from the first report on, has
\* been fed to the fusion once: none twice, none skipped.
EverySampleFusedOnce ==
    /\ \A n \in ImuSamples : imu_fused[n] <= 1
    /\ \A n \in ImuSamples : n <= imu_newest => imu_fused[n] = 1

LiveViews(f) == {v \in DOMAIN views : views[v].frame = f /\ views[v].refcount > 0}

\* C9: every wrap holds one reference on its frame, from the wrap until the
\* matrix library's count of the view is zero: a frame's count is what its
\* owners hold plus one per view still in use, and the frame is destroyed
\* once, with its last reference.
ViewsPairFrameReferences ==
    \A f \in FrameIds :
        /\ frames[f].refs = frames[f].owner + Cardinality(LiveViews(f))
        /\ frames[f].destroys = IF frames[f].refs = 0 THEN 1 ELSE 0

\* Of two views of one frame one is released and one in use, after the
\* owners have let go of the frame.
ViewOutlivesAnotherAndTheOwner ==
    \E f \in FrameIds, v, w \in DOMAIN views :
        /\ views[v].frame = f /\ views[w].frame = f
        /\ views[v].refcount = 0 /\ views[w].refcount > 0
        /\ frames[f].owner = 0
        /\ frames[f].refs = 1

\* C10: when the WMR assembly fails, every device made in the call has been
\* destroyed and none is in the system device set.
FailedAssemblyLeavesNoDevice ==
    wmr_ret = "error"
        => /\ \A d \in WmrDevs : wmr_devs[d] # "alive"
           /\ wmr_xsysd = <<>>

(***************************************************************************)
(* C11: initialisation of the native-display target returns false when no  *)
(* display is attached or when the configured display index is not an      *)
(* index into the enumerated displays, and a successful initialisation      *)
(* selected one of the enumerated displays.                                 *)
(***************************************************************************)
VkdSelected ==
    vkd_displays[comp_window_vk_display_current_display(vkd_displays,
                                                        vkd_settings.display)]

VkDisplayInitRejectsBadIndex ==
    vkd_ret # "none" =>
        /\ (vkd_attached = 0 \/ vkd_settings.vk_display \notin 0..(vkd_attached - 1))
              => vkd_ret = "false"
        /\ vkd_ret = "true" =>
              \E i \in 0..(vkd_attached - 1) :
                  VkdSelected = display_props(vkd_attached)[i]

(***************************************************************************)
(* C12: vive_controller_create returns either a fully constructed device   *)
(* or no device with everything acquired so far released: the device       *)
(* memory, the mutexes, the HID handle, and no read thread left running.   *)
(***************************************************************************)
CreateAllOrNothing ==
    /\ vc_ret = "null" =>
           /\ vc_d # "alive"
           /\ vc_hid = "closed"
           /\ vc_lock # "init" /\ vc_fusion_mutex # "init"
           /\ vc_pc = "none"
    /\ (vc_ret = "device" /\ vc_dpc = "idle") =>
           /\ vc_d = "alive"
           /\ vc_hid = "open"
           /\ vc_lock = "init" /\ vc_fusion_mutex = "init"
           /\ vc_pc # "none"

(***************************************************************************)
(* C13: the read thread never holds the thread-helper lock while it is     *)
(* blocked in the HID read or while it decodes a report; it holds it only  *)
(* around the keep-running check.                                          *)
(***************************************************************************)
HelperLockOnlyAroundCheck ==
    vc_pc \in {"drain", "lock", "read", "decode"} => vc_oth.owner # "thread"

\* The thread is decoding a report after it went around the loop once
ThreadDecodesSecondReport == vc_pc = "decode" /\ vc_reports >= 1

(***************************************************************************)
(* C14: once destroy has requested the stop, at most one more HID read      *)
(* returns in the read thread, the thread terminates and the stop-and-wait *)
(* returns, also when no report arrives and when the thread had already    *)
(* exited on a read error.                                                 *)
(***************************************************************************)
StopIsObservedAndJoined ==
    /\ [](vc_late_reads <= 1)
    /\ (vc_dpc = "join") ~> (vc_pc = "exited" /\ vc_dpc = "done")

\* Destroy is waiting for a thread that is blocked in the HID read
StopRequestedDuringRead == vc_dpc = "join" /\ vc_pc = "read"

(***************************************************************************)
(* C15: decoding a Watchman message of either generation reads no byte     *)
(* beyond the end of the message, for every flag byte and declared length; *)
(* an overshoot of the cursor is only logged and decoding returns.         *)
(***************************************************************************)
DecodeReadsWithinMessage ==
    wm_out.done => wm_out.top <= Max(wm_msg.len - 1, 0)

(***************************************************************************)
(* C16: update_inputs on any one Survive device empties the shared event   *)
(* queue and applies every button and pose event in it to the device of    *)
(* the object the event names, whichever device it was called on and       *)
(* whichever devices exist.                                                *)
(***************************************************************************)
SevCount(q, o, type) ==
    Len(SelectSeq(q, LAMBDA e : e.object = o /\ e.type = type))

UpdateInputsDispatchesWholeQueue ==
    [][(Len(sev_queue') < Len(sev_queue) \/ sev_crashed' # sev_crashed) =>
          /\ sev_queue' = <<>>
          /\ ~sev_crashed'
          /\ \A o \in sev_devs :
                /\ sev_dev'[o].buttons = sev_dev[o].buttons + SevCount(sev_queue, o, "button")
                /\ sev_dev'[o].poses = sev_dev[o].poses + SevCount(sev_queue, o, "pose")]_vars

(***************************************************************************)
(* C17: after a Survive pose event whose orientation fails validation the  *)
(* device's relation has every flag off, also when an earlier event set    *)
(* them; a flag is on only for a component that passed validation in the   *)
(* latest event.                                                           *)
(***************************************************************************)
FlagsFollowLatestPoseEvent ==
    \A o \in sev_devs :
        sev_dev[o].poses > 0 =>
            LET v == sev_dev[o].last
                f == sev_dev[o].flags
            IN /\ ~v.rot => f = {}
               /\ "ORIENTATION" \in f => v.rot
               /\ "POSITION" \in f => v.pos
               /\ "LINEAR_VELOCITY" \in f => v.lin
               /\ "ANGULAR_VELOCITY" \in f => v.ang

\* C18: create_system asked for a system compositor while the role table
\* gives no head device returns an error and writes none of its out
\* parameters: no system, no device set, no space overseer, no compositor.
CreateSystemNoHeadHandsBackNothing ==
    \A k \in DOMAIN xsysds :
        (xsysds[k].want_xsysc /\ xsysds[k].static_roles.head = 0)
            => /\ xsysds[k].xret # "XRT_SUCCESS"
               /\ xsysds[k].out = OutNone

CreateSystemRefusedWithoutHead ==
    \E k \in DOMAIN xsysds :
        /\ xsysds[k].want_xsysc
        /\ xsysds[k].roles.head = -1
        /\ Len(xsysds[k].xdevs) > 0
        /\ xsysds[k].xret = "XRT_ERROR_IPC_FAILURE"
        /\ xsysds[k].state = "destroyed"

\* The devices a device set holds
DevicesOf(xdevs) == {xdevs[i] : i \in DOMAIN xdevs}

\* C19: in every device set create_system returns, each of the four roles
\* is no device exactly when its index in the role table is -1, and is
\* otherwise a device of the set, whatever the role table holds.
RolesResolveIntoDeviceSet ==
    \A k \in DOMAIN xsysds :
        xsysds[k].xret = "XRT_SUCCESS" =>
            \A r \in IpcRoles :
                IF xsysds[k].roles[r] = -1
                THEN xsysds[k].static_roles[r] = 0
                ELSE xsysds[k].static_roles[r] \in DevicesOf(xsysds[k].xdevs)

\* C20: ipc_shmem_destroy of a pair that is invalid already, never created
\* or destroyed before, closes no descriptor and unmaps no memory.
DestroyOfInvalidPairIsNoOp ==
    (/\ shm_last.called
     /\ shm_last.handle = XRT_SHMEM_HANDLE_INVALID
     /\ shm_last.map = ShmNull)
        => shm_last.closed = {} /\ shm_last.unmapped = {}

\* C21: a map attempt with the handle ipc_shmem_destroy has left invalid
\* fails with XRT_ERROR_IPC_FAILURE and gives the caller no mapping.
MapOfDestroyedHandleFails ==
    (shm_remap.called /\ shm_last.called /\ shm_remap.handle = XRT_SHMEM_HANDLE_INVALID)
        => /\ shm_remap.ret = "XRT_ERROR_IPC_FAILURE"
           /\ shm_remap.map = ShmNull

\* C23: an object that has registered an introspection root is not freed
\* while the root is registered: here the Vive controller, whose root
\* vive_controller_setup_ui registers.
RootRemovedBeforeOwnerFreed ==
    vc_d = "freed" => ~vc_var_root

\* Where destroy released x: its place in the order, 0 if it did not
ReleasedAt(x) ==
    IF \E i \in DOMAIN slc_released : slc_released[i] = x
    THEN CHOOSE i \in DOMAIN slc_released : slc_released[i] = x
    ELSE 0

CreateFailsOnMajorOrNoCalibration ==
    slc_ret # <<>> =>
        IF \/ slc_cfg.implementation.major # slc_cfg.header.major
           \/ (~slc_cfg.config_file /\ ~slc_cfg.some_calib)
        THEN /\ slc_ret = <<-1>>
             /\ ~slc_out
             /\ \A o \in SlcObjects : slc_objs[o] = "none"
             /\ ~slc_var_root
        ELSE slc_ret = <<0>> /\ slc_out

CreatedDespiteMinorAndPatch ==
    /\ slc_ret = <<0>>
    /\ slc_cfg.implementation.minor # slc_cfg.header.minor
    /\ slc_cfg.implementation.patch # slc_cfg.header.patch
    /\ ~slc_cfg.config_file
    /\ slc_objs["t"] = "alive"

\* C25: while the history of SLAM relations is empty, a pose query returns
\* a relation with no flag set, in every prediction mode.
EmptyHistoryGivesNoFlags ==
    (n_queries > 0 /\ slam_rels = <<>>) => query.out_relation.flags = "NONE"

FilteredQueryOnEmptyHistory ==
    /\ n_queries > 0
    /\ slam_rels = <<>>
    /\ query.when > 0
    /\ last_ts = query.when
    /\ pred_type = SLAM_PRED_SP_SO_IA_IL
    /\ gyro_ff # <<>>
    /\ filter.use_exponential_smoothing_filter

HeaderOnceBeforeRowsNoRowWhenDisabled ==
    /\ csv_creates <= 1
    /\ csv_file # <<>> =>
          /\ csv_creates = 1
          /\ csv_file[1].kind = "header"
          /\ \A i \in 2..Len(csv_file) : csv_file[i].kind = "row"
    /\ \A i \in 1..Len(csv_file) :
          csv_file[i].kind = "row" => csv_file[i].found = <<TRUE>>
    /\ \A p \in CsvProducers :
          (csv_found[p] = <<FALSE>> /\ csv_pc[p] # "idle") => csv_pc[p] = "unlock"

RowsOfBothProducersAfterOneHeader ==
    /\ Len(csv_file) >= 3
    /\ \E i, j \in 2..Len(csv_file) : csv_file[i].by # csv_file[j].by
    /\ \E p \in CsvProducers : csv_found[p] = <<FALSE>>

\* C29: a pose query on the simulated HMD with the head-pose input reports
\* all four flags, orientation valid and tracked and position valid and
\* tracked, in every motion pattern and at every timestamp.
HeadPoseReportsAllFourFlags ==
    sim_name = <<"XRT_INPUT_GENERIC_HEAD_POSE">> => sim_out.relation_flags = SimFlagBits

\* C30: for a non-empty list of display modes the automatic choice returns
\* the index of a mode with the largest pixel count of the list and, among
\* the modes of that pixel count, the highest refresh rate; for a list of
\* one mode it returns that mode.
BestModeMaxPixelsThenRefresh ==
    vkm_best # <<>> =>
        /\ vkm_best[1] \in 0..(Len(vkm_modes) - 1)
        /\ \A i \in 1..Len(vkm_modes) :
              /\ vk_mode_pixels(vkm_modes[i]) <= vk_mode_pixels(vkm_modes[vkm_best[1] + 1])
              /\ vk_mode_pixels(vkm_modes[i]) = vk_mode_pixels(vkm_modes[vkm_best[1] + 1])
                    => vkm_modes[i].refreshRate <= vkm_modes[vkm_best[1] + 1].refreshRate
        /\ Len(vkm_modes) = 1 => vkm_best[1] = 0

LaterModeWinsTieOnRefresh ==
    /\ Len(vkm_modes) = 3
    /\ vkm_best = <<2>>
    /\ vk_mode_pixels(vkm_modes[2]) = vk_mode_pixels(vkm_modes[3])
    /\ vk_mode_pixels(vkm_modes[1]) < vk_mode_pixels(vkm_modes[2])
    /\ vkm_modes[2].refreshRate < vkm_modes[3].refreshRate

\* C31: every haptic pulse sent to the controller has a low tick count of
\* at least 1, and its high and low tick counts add up to the period
\* 1e6 / frequency in microsecond ticks.
PulseTicksAddUpToPeriod ==
    hap_report # <<>> =>
        /\ hap_report[1].pulse_low >= 1
        /\ hap_report[1].pulse_high + hap_report[1].pulse_low =
              haptic_high_plus_low(hap_report[1].frequency)

\* The detections of one call are at least two and all the same
NmsAllSame ==
    /\ Len(nms_detections) >= 2
    /\ \A i \in 1..Len(nms_detections) : nms_detections[i] = nms_detections[1]

\* C32: merging detections that all have the same box, keypoints and
\* confidence gives one detection with that box (centre, width and height)
\* and those keypoints.
MergeOfSameKeepsBoxAndKeypoints ==
    (nms_outs # <<>> /\ NmsAllSame) =>
        /\ Len(nms_outs[1].outs) = 1
        /\ nms_outs[1].outs[1].bbox = nms_detections[1].bbox
        /\ nms_outs[1].outs[1].keypoints = nms_detections[1].keypoints

\* C33 as stated: merging two or more fully overlapping detections of the
\* same confidence c gives a confidence strictly above c, for every valid c.
MergeOfSameRaisesConfidence ==
    (nms_outs # <<>> /\ NmsAllSame) =>
        nms_outs[1].outs[1].confidence > nms_detections[1].confidence

\* C33: merging two or more fully overlapping detections of the same
\* confidence c gives a confidence strictly above c when c is below 1, and
\* the confidence 1 when c is 1.
MergeOfSameRaisesConfidenceBelowOne ==
    (nms_outs # <<>> /\ NmsAllSame) =>
        /\ Len(nms_outs[1].outs) = 1
        /\ nms_detections[1].confidence < ConfOne =>
              nms_outs[1].outs[1].confidence > nms_detections[1].confidence
        /\ nms_detections[1].confidence = ConfOne =>
              nms_outs[1].outs[1].confidence = ConfOne

ThreeSameBelowOneMerged ==
    /\ nms_outs # <<>>
    /\ NmsAllSame
    /\ Len(nms_detections) = 3
    /\ nms_detections[1].confidence < ConfOne
    /\ Len(nms_outs[1].outs) = 1

\* C34: after closeCamera no camera resource acquired by initCamera is
\* still open, whether the initialisation completed or stopped partway.
NothingOpenAfterClose ==
    cam_last = "closeCamera" => cam_open = {}

\* C35: when the frame thread and the query thread flush at the same time,
\* every pose of the engine still reaches the SLAM-only history exactly
\* once and in increasing timestamp order.
ConcurrentFlushKeepsOrder ==
    /\ \A i, j \in 1..Len(cf_rels) : i < j => cf_rels[i].ts < cf_rels[j].ts
    /\ (cf_queue = <<>> /\ \A th \in CfThreads : cf_np[th] = <<>>) =>
           [i \in 1..Len(cf_rels) |-> cf_rels[i].ts] = [i \in 1..Len(cf_made) |-> cf_made[i].ts]

\* C36: two creations, also when they run at the same time in two
\* processes, return handles to two distinct regions, and once a creation
\* has returned and none is under way no object is named /monado_shm.
CreationsDistinctAndNameGone ==
    /\ \A p, q \in ShcProcesses :
          (p # q /\ shc_ret[p] = "XRT_SUCCESS" /\ shc_ret[q] = "XRT_SUCCESS")
              => shc_fd[p] # shc_fd[q]
    /\ ((\A p \in ShcProcesses : shc_pc[p] = "idle")
        /\ (\E p \in ShcProcesses : shc_ret[p] # "none")) => shc_name = 0

\* C37: the probe returns only devices that exist: each of the entries it
\* counts is a device created during discovery, none of them null.
ProbeReturnsOnlyDevices ==
    survive_out # <<>> =>
        \A i \in 1..Len(survive_out[1]) :
            /\ survive_out[1][i] # 0
            /\ survive_devs[survive_out[1][i]].state # "none"

\* How many times call x is in the calls of the last builder call
WmrCount(x) == Cardinality({i \in 1..Len(wmr_calls) : wmr_calls[i] = x})

\* A builder call has returned: the estimation, or the assembly unless it
\* crashed
WmrReturned ==
    /\ wmr_calls # <<>>
    /\ wmr_ret # "crash"

\* No entry of the list is read once the list is unlocked
WmrNoUseAfterUnlock ==
    \A i, j \in 1..Len(wmr_calls) :
        (wmr_calls[i] = "unlock" /\ i < j) => wmr_calls[j] \notin WmrEntryUses

SwapchainUsesValidatedDisplay ==
    vkd_cts_display # <<>> =>
        /\ vkd_cts_display[1] = VkdSelected
        /\ vkd_settings.vk_display \in 0..(vkd_attached - 1)
        /\ vkd_cts_display[1] = display_props(vkd_attached)[vkd_settings.vk_display]

\* The part that holds: swapchain creation after a successful initialisation
\* always finds a display, the one initialisation stored
SwapchainUsesStoredDisplay ==
    vkd_swap_ret # "none" =>
        /\ vkd_cts_display = <<VkdSelected>>
        /\ Len(vkd_displays) = 1

(***************************************************************************)
(* C40: a pose query on the Vive HMD in SLAM mode for which the tracker    *)
(* reports no tracked pose returns the pose that the SLAM-mode query       *)
(* before it returned: the last known pose, unchanged by the queries.      *)
(***************************************************************************)
UntrackedQueriesReturnSamePose ==
    \A i \in 1..(Len(vhp_out) - 1) :
        (vhp_out[i].slam /\ vhp_out[i + 1].slam /\ ~vhp_out[i + 1].tracked)
            => vhp_out[i + 1].pose = vhp_out[i].pose


====
